---- MODULE Spec2Model ----
(***************************************************************************)
(* Document search tool: the Next.js client (SearchBar, HomePage,          *)
(* IndexingPanel, DocumentCard, lib/api.js) and the indexing service it    *)
(* talks to (POST /index, POST /search).                                   *)
(*                                                                         *)
(* Strings are sequences of one-character strings, so that trimming,       *)
(* lower-casing, concatenation and substring search are computed and not   *)
(* assumed.  A JavaScript null is the empty sequence where the value is a  *)
(* record (None / Some), and NoPage where it is a page number.             *)
(*                                                                         *)
(* The module holds independent state machines, each with its own     *)
(* specification over the same variables:                                  *)
(*   SpecLocator   findPageNumber (lib/api.js)                             *)
(*   SpecIdentity  composite ids and getSource                             *)
(*   SpecSearch    SearchBar + HomePage + POST /search                     *)
(*   SpecIndexing  IndexingPanel + POST /index + the indexing run          *)
(*   SpecIndexOps  the indexing run + POST /index/clear                    *)
(*   SpecUrl       the document URLs of lib/api.js                         *)
(*   SpecCard      DocumentCard: foundOnPage and handleView                *)
(*   SpecMatchIn   DocumentCard: the 'Match in' labels                     *)
(*   SpecPages     getPageNumbers                                          *)
(*   SpecViewer    DocViewerModal: the effect and its async function       *)
(*   SpecFetch     fetchAPI                                                *)
(***************************************************************************)
EXTENDS Integers, Sequences, FiniteSets, TLC

(***************************************************************************)
(* Bounds of the model.                                                    *)
(***************************************************************************)
MaxPages == 2
MaxTextLen == 2
MaxQueryLen == 2
MaxRowIdLen == 2
MaxInputLen == 2
MaxHits == 21
MaxPosts == 2
MaxFaults == 1
MaxSearches == 1
MaxClears == 1
MaxUrlIdLen == 2
MaxTotalPages == 10
MaxEffects == 2
MaxStatsReqs == 1
BatchSize == 2

VARIABLES
    \* ---- page locator (lib/api.js findPageNumber)
    locDocument,     \* the hit: [hasPageInfo, page_info]
    locQuery,        \* the query handed to findPageNumber
    locResult,       \* what findPageNumber returned (NoPage: null)
    locPc,           \* "ready" | "returned"
    \* ---- composite identity
    idPairs,         \* <<[table, rowId], [table, rowId]>>: two source rows
    idEncoded,       \* their composite ids, None until encoded
    idDecoded,       \* the decoded ids, None until decoded
    idSource,        \* getSource of each id, None until computed
    \* ---- SearchBar + HomePage + POST /search
    sbQuery,         \* SearchBar: the text in the input
    lastSubmit,      \* what the last handleSubmit did: "none" | "sent" | "rejected"
    query,           \* HomePage: the query being shown
    isLoading,       \* HomePage
    results,         \* HomePage: None, or Some([hits, estimatedTotalHits])
    error,           \* HomePage: None, or Some(message)
    currentPage,     \* HomePage
    searchReqs,      \* POST /search requests in flight: [query, limit, offset]
    \* ---- IndexingPanel
    isIndexing,      \* IndexingPanel state
    indexingStatus,  \* IndexingPanel state: None, or Some(the POST /index result)
    indexError,      \* IndexingPanel state "error": None, or Some(message)
    stats,           \* IndexingPanel state: None, or Some(the GET /stats result)
    panelCalls,      \* handleIndexDocuments calls in progress, each at an await
    lastClick,       \* what the last handleIndexDocuments call did
    lastConfirm,     \* Some(TRUE): the call last started followed a confirmed dialog
    \* ---- the network
    posts,           \* POST /index requests on their way: [from, clear_existing]
    postsIssued,     \* how many POST /index were sent so far
    panelResps,      \* POST /index outcomes on their way to the panel
    statsReqs,       \* GET /stats requests of the panel in flight
    \* ---- the service: source store, search index, the indexing run
    store,           \* the documents of the source tables
    index,           \* the search index: a sequence of records
    runState,        \* "Idle" | "Running" | "Completed" | "Aborted"
    runPhase,        \* where the run is: "clear" | "list" | "docs" | "flush" | "flushing" | "final" | "none"
    runOwner,        \* who asked for the run: "panel" | "curl"
    runClear,        \* the run's clear_existing
    runDocs,         \* the run's document set
    runNext,         \* the next document of runDocs
    batch,           \* the in-memory batch
    runStats,        \* [total, indexed, failed, skipped]
    runFaults,       \* a fetch or an extraction failed in this run
    runCount,        \* runs started so far
    lastOutcome,     \* None, or Some([name, kind]) of the last document handled
    lastFlush,       \* None, or Some([size, ok, before, known]) of the last flush
    runFlushes,      \* the batches this run handed to upsertBatch, in order
    searchHits,      \* None, or Some([query, hits]) of the last POST /search
    searchCount,     \* POST /search requests made to the index so far
    faults,          \* fetch, extraction and flush failures so far
    \* ---- POST /index/clear
    clearReqs,       \* POST /index/clear requests on their way
    clearsIssued,    \* how many POST /index/clear were sent so far
    clearing,        \* the calls of SearchIndexClient.clear() of such requests in progress
    \* ---- document URLs (lib/api.js)
    urlDocumentId,   \* documentId
    urlDocumentName, \* documentName (<<>>: null)
    urlQuery,        \* query (<<>>: null)
    urlPageNumber,   \* pageNumber (NoPage: null)
    urlViewerType,   \* viewerType
    urlBuilt,        \* None, or Some([by, url]): the URL built
    urlRequested,    \* None, or Some([ok, value]): the id the service decoded
    \* ---- DocumentCard
    cardImpl,        \* which DocumentCard: "part_004" | "SearchResults.js"
    cardName,        \* document.name of the hit
    foundOnPage,     \* None before the card renders, then Some(foundOnPage)
    cardOpened,      \* None, or Some([pageNumber, url]) of handleView
    cardFormatted,   \* document._formatted of the hit
    matchIn,         \* None before the card renders, then Some(matchIn)
    \* ---- fetchAPI
    fetchResult,     \* what fetch() and response.json() come back with
    fetchOutcome,    \* None, or Some([settled, message, data]) of fetchAPI
    \* ---- getPageNumbers
    pnCurrentPage,   \* currentPage
    pnTotalPages,    \* totalPages
    pageNumbers,     \* None, or Some(the list getPageNumbers returned)
    \* ---- DocViewerModal
    dvIsOpen,        \* the isOpen prop
    dvDocumentId,    \* the documentId prop (<<>>: none)
    dvStatus,        \* 'idle' | 'loading' | 'done' | 'error'
    dvErrorMsg,      \* errorMsg
    dvContainer,     \* containerRef: [mounted, el, html], html the id of the
                     \* document rendered in element el, <<>> when empty
    dvTasks,         \* the async functions of the effect under way: [doc, pc, el]
    dvEffects        \* how many times the effect started a fetch

locVars == <<locDocument, locQuery, locResult, locPc>>
idVars == <<idPairs, idEncoded, idDecoded, idSource>>
searchVars == <<sbQuery, lastSubmit, query, isLoading, results, error,
                currentPage, searchReqs>>
panelVars == <<isIndexing, indexingStatus, indexError, stats, panelCalls, lastClick,
              lastConfirm>>
runVars == <<runState, runPhase, runOwner, runClear, runDocs, runNext, batch,
             runStats, runFaults, runCount, lastOutcome, lastFlush, runFlushes>>
clearVars == <<clearReqs, clearsIssued, clearing>>
indexVars == <<panelVars, posts, postsIssued, panelResps, statsReqs, store, index,
               runVars, searchHits, searchCount, faults, clearVars>>
urlVars == <<urlDocumentId, urlDocumentName, urlQuery, urlPageNumber, urlViewerType,
             urlBuilt, urlRequested>>
cardVars == <<cardImpl, cardName, foundOnPage, cardOpened, cardFormatted, matchIn>>
fetchVars == <<fetchResult, fetchOutcome>>
pagesVars == <<pnCurrentPage, pnTotalPages, pageNumbers>>
viewerVars == <<dvIsOpen, dvDocumentId, dvStatus, dvErrorMsg, dvContainer, dvTasks,
               dvEffects>>
vars == <<locVars, idVars, searchVars, indexVars, urlVars, cardVars, fetchVars,
          pagesVars, viewerVars>>
\* What an action of one machine leaves alone: the other machines.
notLoc == <<idVars, searchVars, indexVars, urlVars, cardVars, fetchVars,
  pagesVars, viewerVars>>
notId == <<locVars, searchVars, indexVars, urlVars, cardVars, fetchVars,
  pagesVars, viewerVars>>
notSearch == <<locVars, idVars, indexVars, urlVars, cardVars, fetchVars,
  pagesVars, viewerVars>>
notIndex == <<locVars, idVars, searchVars, urlVars, cardVars, fetchVars,
  pagesVars, viewerVars>>
notCard == <<locVars, idVars, searchVars, indexVars, urlVars, fetchVars,
  pagesVars, viewerVars>>
notFetch == <<locVars, idVars, searchVars, indexVars, urlVars, cardVars,
  pagesVars, viewerVars>>
notUrl == <<locVars, idVars, searchVars, indexVars, cardVars, fetchVars,
  pagesVars, viewerVars>>
notPages == <<locVars, idVars, searchVars, indexVars, urlVars, cardVars, fetchVars,
  viewerVars>>
notViewer == <<locVars, idVars, searchVars, indexVars, urlVars, cardVars, fetchVars,
  pagesVars>>

(***************************************************************************)
(* Strings.                                                                *)
(***************************************************************************)
None == <<>>
Some(x) == <<x>>

Strs(alphabet, lo, hi) == UNION {[1..k -> alphabet] : k \in lo..hi}

Min(S) == CHOOSE m \in S : \A n \in S : m <= n
Max(S) == CHOOSE m \in S : \A n \in S : m >= n

UpperLetters == <<"A", "B", "C", "D", "E", "F", "G", "H", "I", "J", "K", "L", "M",
                  "N", "O", "P", "Q", "R", "S", "T", "U", "V", "W", "X", "Y", "Z">>
LowerLetters == <<"a", "b", "c", "d", "e", "f", "g", "h", "i", "j", "k", "l", "m",
                  "n", "o", "p", "q", "r", "s", "t", "u", "v", "w", "x", "y", "z">>

\* String.prototype.toLowerCase, one character.
ToLowerChar(c) ==
    IF \E i \in 1..26 : UpperLetters[i] = c
    THEN LowerLetters[CHOOSE i \in 1..26 : UpperLetters[i] = c]
    ELSE c

toLowerCase(s) == [i \in 1..Len(s) |-> ToLowerChar(s[i])]

\* String.prototype.includes: an exact (case-sensitive) substring search.
includes(s, sub) ==
    \E i \in 0..(Len(s) - Len(sub)) : SubSeq(s, i + 1, i + Len(sub)) = sub

\* String.prototype.startsWith
startsWith(s, prefix) ==
    /\ Len(prefix) <= Len(s)
    /\ SubSeq(s, 1, Len(prefix)) = prefix

(***************************************************************************)
(* PAGE LOCATOR                                                            *)
(***************************************************************************)
NoPage == 0

\* Variant of findPageNumber that keeps scanning and returns the last
\* matching page.
findPageNumber_LastMatch(document, q) ==
    IF ~document.hasPageInfo \/ q = <<>>
    THEN NoPage
    ELSE LET pi == document.page_info
             hit == {i \in 1..Len(pi) :
                        /\ pi[i].text # <<>>
                        /\ includes(toLowerCase(pi[i].text), toLowerCase(q))}
         IN  IF hit = {} THEN NoPage ELSE pi[Max(hit)].page

\* Variant of findPageNumber that compares without lower-casing.
findPageNumber_CaseSensitive(document, q) ==
    IF ~document.hasPageInfo \/ q = <<>>
    THEN NoPage
    ELSE LET pi == document.page_info
             hit == {i \in 1..Len(pi) :
                        /\ pi[i].text # <<>>
                        /\ includes(pi[i].text, q)}
         IN  IF hit = {} THEN NoPage ELSE pi[Min(hit)].page

\* findPageNumber(document, query): null when page_info is missing or the
\* query is falsy; else the page of the first entry, in array order, whose
\* text is truthy and contains the lower-cased query.
findPageNumber(document, q) ==
    IF ~document.hasPageInfo \/ q = <<>>
    THEN NoPage
    ELSE LET pi == document.page_info
             hit == {i \in 1..Len(pi) :
                        /\ pi[i].text # <<>>
                        /\ includes(toLowerCase(pi[i].text), toLowerCase(q))}
         IN  IF hit = {} THEN NoPage ELSE pi[Min(hit)].page

\* Page texts and queries.  Texts mix a lower-case and an upper-case letter,
\* queries use both cases of one of them, so case folding is needed in both
\* directions.
TextAlphabet == {"a", "B"}
QueryAlphabet == {"a", "A", "b"}
PageTexts == Strs(TextAlphabet, 0, MaxTextLen)
\* A query reaches findPageNumber from HomePage's query state, which
\* SearchBar.handleSubmit only ever sets to a non-empty trimmed string.
LocQueries == Strs(QueryAlphabet, 1, MaxQueryLen)

\* page_info as the per-page extractor produces it: one entry per page, in
\* page order, numbered from 1.
PageInfos ==
    UNION {{[i \in 1..n |-> [page |-> i, text |-> t[i]]] : t \in [1..n -> PageTexts]}
             : n \in 0..MaxPages}

LocDocuments ==
    {[hasPageInfo |-> FALSE, page_info |-> <<>>]}
      \cup {[hasPageInfo |-> TRUE, page_info |-> pi] : pi \in PageInfos}

CallFindPageNumber ==
    /\ locPc = "ready"
    /\ locResult' = findPageNumber(locDocument, locQuery)
    /\ locPc' = "returned"
    /\ UNCHANGED <<locDocument, locQuery>>
    /\ UNCHANGED notLoc

(***************************************************************************)
(* COMPOSITE IDENTITY                                                      *)
(***************************************************************************)
\* The source tables the client knows (getSource).
FORMS_MASTER == <<"F", "O", "R", "M", "S", "_", "M", "A", "S", "T", "E", "R">>
VESSEL_CERTIFICATES == <<"V", "E", "S", "S", "E", "L", "_", "C", "E", "R", "T", "I", "F", "I", "C", "A", "T", "E", "S">>
SurveyCertificates == <<"S", "u", "r", "v", "e", "y", "C", "e", "r", "t", "i", "f", "i", "c", "a", "t", "e", "s">>
ConfiguredTables == {FORMS_MASTER, VESSEL_CERTIFICATES, SurveyCertificates}

\* "VESSEL_CERTIFICATES:456"
Delimiter == ":"

Chars(s) == {s[i] : i \in 1..Len(s)}

\* Variant of encode that joins with an underscore.
encode_Underscore(table, rowId) ==
    IF Delimiter \in Chars(table) \/ Delimiter \in Chars(rowId)
    THEN [ok |-> FALSE, id |-> <<>>]
    ELSE [ok |-> TRUE, id |-> table \o <<"_">> \o rowId]

\* DocumentIdentity.encode: table and row id joined by the delimiter; a
\* component that holds the delimiter is rejected.
encode(table, rowId) ==
    IF Delimiter \in Chars(table) \/ Delimiter \in Chars(rowId)
    THEN [ok |-> FALSE, id |-> <<>>]
    ELSE [ok |-> TRUE, id |-> table \o <<Delimiter>> \o rowId]

\* DocumentIdentity.decode: split at the delimiter; MalformedIdentity when
\* the delimiter is absent or the table is not a configured one.
decode(id) ==
    LET at == {i \in 1..Len(id) : id[i] = Delimiter}
    IN  IF at = {}
        THEN [ok |-> FALSE, table |-> <<>>, rowId |-> <<>>]
        ELSE LET k == Min(at)
                 table == SubSeq(id, 1, k - 1)
             IN  IF table \notin ConfiguredTables
                 THEN [ok |-> FALSE, table |-> <<>>, rowId |-> <<>>]
                 ELSE [ok |-> TRUE, table |-> table,
                       rowId |-> SubSeq(id, k + 1, Len(id))]

\* Variant of getSource whose second branch carries the first one's label.
getSource_CopiedLabel(id) ==
    IF startsWith(id, FORMS_MASTER) THEN Some("Forms")
    ELSE IF startsWith(id, VESSEL_CERTIFICATES) THEN Some("Forms")
    ELSE IF startsWith(id, SurveyCertificates) THEN Some("Survey Certs")
    ELSE None

\* getSource(id): the badge of the source table the id starts with, or null.
getSource(id) ==
    IF startsWith(id, FORMS_MASTER) THEN Some("Forms")
    ELSE IF startsWith(id, VESSEL_CERTIFICATES) THEN Some("Vessel Certs")
    ELSE IF startsWith(id, SurveyCertificates) THEN Some("Survey Certs")
    ELSE None

RowIdAlphabet == {"1", "2", Delimiter}
RowIds == Strs(RowIdAlphabet, 1, MaxRowIdLen)
SourceRows == [table : ConfiguredTables, rowId : RowIds]

\* The pipeline builds the id of each of the two rows.
EncodeIds ==
    /\ idEncoded = None
    /\ idEncoded' = [k \in 1..2 |-> encode(idPairs[k].table, idPairs[k].rowId)]
    /\ UNCHANGED <<idPairs, idDecoded, idSource>>
    /\ UNCHANGED notId

\* GET /document/{compositeId}: the service decodes each id it was given.
DecodeIds ==
    /\ idEncoded # None
    /\ idDecoded = None
    /\ \A k \in 1..2 : idEncoded[k].ok
    /\ idDecoded' = [k \in 1..2 |-> decode(idEncoded[k].id)]
    /\ UNCHANGED <<idPairs, idEncoded, idSource>>
    /\ UNCHANGED notId

\* DocumentCard: the source badge of each hit.
ResolveSources ==
    /\ idEncoded # None
    /\ idSource = None
    /\ \A k \in 1..2 : idEncoded[k].ok
    /\ idSource' = [k \in 1..2 |-> getSource(idEncoded[k].id)]
    /\ UNCHANGED <<idPairs, idEncoded, idDecoded>>
    /\ UNCHANGED notId



(***************************************************************************)
(* fetchAPI (lib/api.js)                                                   *)
(***************************************************************************)
\* What fetch(url, config) comes back with: no response at all, or a response
\* with a status and a body, which is JSON (with or without an error field,
\* and the rest of the data) or is not (the error page of a proxy).
HttpStatuses == {200, 201, 400, 404, 409, 500, 502}
JsonBodies ==
    [json : {TRUE}, hasError : {FALSE}, error : {""}, data : {"d1", "d2"}]
      \cup [json : {TRUE}, hasError : {TRUE}, error : {"", "busy", "not found"},
            data : {"d1", "d2"}]
NotJsonBody == [json |-> FALSE, hasError |-> FALSE, error |-> "", data |-> "<html>"]
FetchResults ==
    {[failed |-> TRUE, status |-> 0, body |-> NotJsonBody]}
      \cup [failed : {FALSE}, status : HttpStatuses, body : JsonBodies \cup {NotJsonBody}]

\* response.ok
ResponseOk(r) == r.status \in 200..299

\* fetchAPI(endpoint, options), given what fetch comes back with:
\* fetch rejects -> the TypeError is thrown again; response.json() throws on
\* a body that is not JSON -> the SyntaxError is thrown again; a response
\* that is not ok -> Error(data.error || `API error: ${status}`); else data.
fetchAPI(r) ==
    IF r.failed
    THEN [settled |-> "rejected", message |-> <<"Failed to fetch">>, data |-> ""]
    ELSE IF ~r.body.json
    THEN [settled |-> "rejected", message |-> <<"SyntaxError">>, data |-> ""]
    ELSE IF ~ResponseOk(r)
    THEN [settled |-> "rejected",
          message |-> IF r.body.hasError /\ r.body.error # ""
                      THEN <<r.body.error>>
                      ELSE <<"API error: ", r.status>>,
          data |-> ""]
    ELSE [settled |-> "resolved", message |-> <<>>, data |-> r.body.data]

\* A call of fetchAPI settles.
CallFetchAPI ==
    /\ fetchOutcome = None
    /\ fetchOutcome' = Some(fetchAPI(fetchResult))
    /\ UNCHANGED fetchResult
    /\ UNCHANGED notFetch

(***************************************************************************)
(* SEARCH: SearchBar, HomePage, POST /search                               *)
(***************************************************************************)
PER_PAGE == 10
Ellipsis == 0
\* An argument left out of a call.
Undefined == -1

Whitespace == {" "}

RECURSIVE TrimStart(_)
TrimStart(s) ==
    IF s # <<>> /\ Head(s) \in Whitespace THEN TrimStart(Tail(s)) ELSE s

RECURSIVE TrimEnd(_)
TrimEnd(s) ==
    IF s # <<>> /\ s[Len(s)] \in Whitespace
    THEN TrimEnd(SubSeq(s, 1, Len(s) - 1))
    ELSE s

\* String.prototype.trim
trim(s) == TrimEnd(TrimStart(s))

\* What the user can type into the search box.
InputAlphabet == {"a", " "}
InputStrings == Strs(InputAlphabet, 0, MaxInputLen)

\* Math.ceil(a / b), b > 0
CeilDiv(a, b) == (a + b - 1) \div b

\* SearchResults: totalHits and totalPages of the results being shown.
totalHits(r) ==
    IF r.estimatedTotalHits # 0 THEN r.estimatedTotalHits ELSE r.hits
totalPages(r) == CeilDiv(totalHits(r), PER_PAGE)

\* getPageNumbers(currentPage, totalPages): page 1, the last page and the
\* pages within delta = 2 of the current one, with "..." (Ellipsis) wherever
\* two listed pages are not consecutive.
RECURSIVE WithEllipses(_, _, _)
WithEllipses(pages, prev, i) ==
    IF i > Len(pages) THEN <<>>
    ELSE (IF pages[i] - prev > 1 THEN <<Ellipsis>> ELSE <<>>)
            \o <<pages[i]>> \o WithEllipses(pages, pages[i], i + 1)

\* Variant of PagesFrom that lists the last page only when it is near the
\* current one.
RECURSIVE PagesFrom_NoLast(_, _, _)
PagesFrom_NoLast(i, cur, total) ==
    IF i > total THEN <<>>
    ELSE (IF i = 1 \/ (i >= cur - 2 /\ i <= cur + 2)
          THEN <<i>> ELSE <<>>) \o PagesFrom_NoLast(i + 1, cur, total)

RECURSIVE PagesFrom(_, _, _)
PagesFrom(i, cur, total) ==
    IF i > total THEN <<>>
    ELSE (IF i = 1 \/ i = total \/ (i >= cur - 2 /\ i <= cur + 2)
          THEN <<i>> ELSE <<>>) \o PagesFrom(i + 1, cur, total)

getPageNumbers(cur, total) == WithEllipses(PagesFrom(1, cur, total), 0, 1)

\* SearchResults renders Pagination: not loading, no error, a non-empty
\* result page, a query, and more than one page.
PaginationShown ==
    /\ ~isLoading
    /\ error = None
    /\ results # None
    /\ results[1].hits # 0
    /\ query # <<>>
    /\ totalPages(results[1]) > 1

\* The pages the Pagination buttons hand to onPageChange: Prev (unless on
\* page 1), the numbered buttons, Next (unless on the last page).
PageButtons ==
    LET tp == totalPages(results[1])
        nums == getPageNumbers(currentPage, tp)
    IN  {nums[i] : i \in {j \in 1..Len(nums) : nums[j] # Ellipsis}}
          \cup (IF currentPage # 1 THEN {currentPage - 1} ELSE {})
          \cup (IF currentPage # tp THEN {currentPage + 1} ELSE {})

\* searchDocuments(query, limit, offset): the body of the POST /search.
\* limit = 10 and offset = 0 are the defaults of arguments left out.
searchDocuments(q, limit, offset) ==
    [query |-> q,
     limit |-> IF limit = Undefined THEN 10 ELSE limit,
     offset |-> IF offset = Undefined THEN 0 ELSE offset]

\* Variant of fetchPage that takes the offset of the page after.
fetchPage_OffsetOfNextPage(q, page) ==
    /\ isLoading' = TRUE
    /\ error' = None
    /\ searchReqs' = Append(searchReqs,
                            searchDocuments(q, PER_PAGE, page * PER_PAGE))
    /\ UNCHANGED results

\* HomePage.fetchPage(searchQuery, page), up to its await.
fetchPage(q, page) ==
    /\ isLoading' = TRUE
    /\ error' = None
    /\ searchReqs' = Append(searchReqs,
                            searchDocuments(q, PER_PAGE, (page - 1) * PER_PAGE))
    /\ UNCHANGED results

\* HomePage.handleSearch(searchQuery).  The first search replaces the hero
\* SearchBar by the compact one in the header, a new component whose input
\* starts empty.
handleSearch(q) ==
    /\ query' = q
    /\ currentPage' = 1
    /\ sbQuery' = IF query = <<>> THEN <<>> ELSE sbQuery
    /\ fetchPage(q, 1)

\* Variant of handleSubmit that searches while a search is loading.
handleSubmit_WhileLoading ==
    IF trim(sbQuery) # <<>>
    THEN /\ handleSearch(trim(sbQuery))
         /\ lastSubmit' = "sent"
    ELSE /\ lastSubmit' = "rejected"
         /\ UNCHANGED <<sbQuery, query, isLoading, results, error, currentPage,
                        searchReqs>>

\* Variant of handleSubmit that tests the raw input and not the trimmed one.
handleSubmit_NoTrimTest ==
    IF sbQuery # <<>> /\ ~isLoading
    THEN /\ handleSearch(trim(sbQuery))
         /\ lastSubmit' = "sent"
    ELSE /\ lastSubmit' = "rejected"
         /\ UNCHANGED <<sbQuery, query, isLoading, results, error, currentPage,
                        searchReqs>>

\* SearchBar.handleSubmit: onSearch(query.trim()) when the trimmed input is
\* non-empty and no search is loading; nothing otherwise.
handleSubmit ==
    IF trim(sbQuery) # <<>> /\ ~isLoading
    THEN /\ handleSearch(trim(sbQuery))
         /\ lastSubmit' = "sent"
    ELSE /\ lastSubmit' = "rejected"
         /\ UNCHANGED <<sbQuery, query, isLoading, results, error, currentPage,
                        searchReqs>>

\* The form is submitted.
Submit ==
    /\ handleSubmit
    /\ UNCHANGED notSearch

\* SearchBar input onChange (the input is disabled while loading).
TypeQuery ==
    /\ ~isLoading
    /\ \E s \in InputStrings : sbQuery' = s
    /\ UNCHANGED <<lastSubmit, query, isLoading, results, error, currentPage,
                   searchReqs>>
    /\ UNCHANGED notSearch

\* SearchBar.handleClear (the button shows when the input is non-empty).
HandleClear ==
    /\ sbQuery # <<>>
    /\ ~isLoading
    /\ sbQuery' = <<>>
    /\ UNCHANGED <<lastSubmit, query, isLoading, results, error, currentPage,
                   searchReqs>>
    /\ UNCHANGED notSearch

\* HomePage.handlePageChange(page), from a Pagination button.
HandlePageChange ==
    /\ PaginationShown
    /\ \E page \in PageButtons :
          /\ currentPage' = page
          /\ fetchPage(query, page)
    /\ UNCHANGED <<sbQuery, lastSubmit, query>>
    /\ UNCHANGED notSearch

\* POST /search answers: the window [offset, offset + limit) of the hits,
\* with the query and the offset it answers.
SearchResponse(req, total) ==
    LET left == IF total > req.offset THEN total - req.offset ELSE 0
    IN  [hits |-> IF left < req.limit THEN left ELSE req.limit,
         estimatedTotalHits |-> total,
         query |-> req.query,
         offset |-> req.offset]

RemoveAt(seq, i) == SubSeq(seq, 1, i - 1) \o SubSeq(seq, i + 1, Len(seq))

\* fetchPage after its await, the request resolved: setResults(data).
SearchResolves ==
    /\ \E i \in 1..Len(searchReqs), total \in 0..MaxHits :
          /\ results' = Some(SearchResponse(searchReqs[i], total))
          /\ searchReqs' = RemoveAt(searchReqs, i)
    /\ isLoading' = FALSE
    /\ UNCHANGED <<sbQuery, lastSubmit, query, error, currentPage>>
    /\ UNCHANGED notSearch

\* err.message || 'Failed to search documents'
searchErrorOf(message) ==
    IF message # <<>> THEN message ELSE <<"Failed to search documents">>

\* fetchPage after its await, searchDocuments rejected with the error fetchAPI
\* throws: setError(err.message || ...), setResults(null).
SearchRejects ==
    /\ \E i \in 1..Len(searchReqs) : searchReqs' = RemoveAt(searchReqs, i)
    /\ \E r \in FetchResults :
          /\ fetchAPI(r).settled = "rejected"
          /\ error' = Some(searchErrorOf(fetchAPI(r).message))
    /\ results' = None
    /\ isLoading' = FALSE
    /\ UNCHANGED <<sbQuery, lastSubmit, query, currentPage>>
    /\ UNCHANGED notSearch

(***************************************************************************)
(* INDEXING: IndexingPanel, POST /index, the indexing run                  *)
(***************************************************************************)
\* ---- text extraction dispatch
DocumentExtensions == {<<"p", "d", "f">>,
                       <<"d", "o", "c", "x">>,
                       <<"d", "o", "c">>,
                       <<"x", "l", "s", "x">>,
                       <<"x", "l", "s">>,
                       <<"p", "p", "t", "x">>,
                       <<"p", "p", "t">>,
                       <<"t", "x", "t">>}
ImageExtensions == {<<"j", "p", "g">>,
                    <<"j", "p", "e", "g">>,
                    <<"p", "n", "g">>,
                    <<"g", "i", "f">>,
                    <<"b", "m", "p">>,
                    <<"t", "i", "f", "f">>,
                    <<"t", "i", "f">>,
                    <<"w", "e", "b", "p">>}
SupportedExtensions == DocumentExtensions \cup ImageExtensions

\* The lower-cased extension of a filename: what follows its last dot.
Extension(name) ==
    LET dots == {i \in 1..Len(name) : name[i] = "."}
    IN  IF dots = {} THEN <<>>
        ELSE toLowerCase(SubSeq(name, Max(dots) + 1, Len(name)))

\* extractText(blob) of the variant the extension selects: the image variant
\* returns empty text.  A blob is modelled by the words an extractor finds in
\* it.
extractText(name, blob) ==
    IF Extension(name) \in ImageExtensions THEN <<>> ELSE blob

\* The outcomes a zero-length extraction can be given: Extracted, with empty
\* text, or ZeroLength, with no record made.
EmptyOutcomes == {"Extracted", "ZeroLength"}

\* Variant of dispatch that reports an unknown extension as a failure.
dispatch_UnknownFails(name, blob, throws, emptyAs) ==
    IF Extension(name) \notin SupportedExtensions
    THEN [kind |-> "Failed", text |-> <<>>]
    ELSE IF throws
    THEN [kind |-> "Failed", text |-> <<>>]
    ELSE IF extractText(name, blob) = <<>>
    THEN [kind |-> emptyAs, text |-> <<>>]
    ELSE [kind |-> "Extracted", text |-> blob]

\* TextExtractionDispatcher.dispatch(filename, blob): Unsupported for an
\* extension with no extractor; Failed when the extractor throws (caught at
\* the dispatch boundary); else the text extracted.  What becomes of a
\* zero-length extraction is not settled by the sources: the run statistics
\* count it as skipped, the design notes have it indexed with empty content,
\* and the indexing flow of explain.md does not mention it.  emptyAs is the
\* outcome the build gives it, one of EmptyOutcomes.
dispatch(name, blob, throws, emptyAs) ==
    IF Extension(name) \notin SupportedExtensions
    THEN [kind |-> "Unsupported", text |-> <<>>]
    ELSE IF throws
    THEN [kind |-> "Failed", text |-> <<>>]
    ELSE IF extractText(name, blob) = <<>>
    THEN [kind |-> emptyAs, text |-> <<>>]
    ELSE [kind |-> "Extracted", text |-> extractText(name, blob)]

\* ---- run statistics
ZeroStats == [total |-> 0, indexed |-> 0, failed |-> 0, skipped |-> 0]

\* Variant of Count that leaves an unsupported document uncounted.
Count_UnsupportedDropped(st, kind) ==
    CASE kind = "Extracted" -> [st EXCEPT !.indexed = @ + 1]
      [] kind = "Unsupported" -> st
      [] kind \in {"Failed", "ZeroLength"} -> [st EXCEPT !.skipped = @ + 1]
      [] OTHER -> [st EXCEPT !.failed = @ + 1]

\* One document's outcome in the run's counters, as the indexing flow of
\* explain.md has it: a failed download -> failed_count; an extraction that
\* fails, for want of a processor, by an error or (where the build takes it
\* so) for want of text -> skipped_count; a document added to the list ->
\* indexed_count.
Count(st, kind) ==
    CASE kind = "Extracted" -> [st EXCEPT !.indexed = @ + 1]
      [] kind \in {"Unsupported", "Failed", "ZeroLength"} -> [st EXCEPT !.skipped = @ + 1]
      [] OTHER -> [st EXCEPT !.failed = @ + 1]

\* ---- the search index
\* The index record of a document.
IndexRecord(doc, text) ==
    [id |-> encode(doc.table, doc.rowId).id, name |-> doc.name, content |-> text]

\* Variant of upsertBatch that appends.
upsertBatch_Append(idx, recs) == idx \o recs

\* SearchIndexClient.upsertBatch: insert, or replace the record of the same id.
RECURSIVE upsertBatch(_, _)
upsertBatch(idx, recs) ==
    IF recs = <<>> THEN idx
    ELSE LET r == Head(recs)
             at == {i \in 1..Len(idx) : idx[i].id = r.id}
         IN  upsertBatch(IF at = {} THEN Append(idx, r)
                         ELSE [i \in 1..Len(idx) |-> IF i \in at THEN r ELSE idx[i]],
                         Tail(recs))

\* SearchIndexClient.query: the ids of the records that hold the word, in
\* index order.
RECURSIVE queryIndex(_, _)
queryIndex(idx, word) ==
    IF idx = <<>> THEN <<>>
    ELSE (IF \E i \in 1..Len(Head(idx).content) : Head(idx).content[i] = word
          THEN <<Head(idx).id>> ELSE <<>>) \o queryIndex(Tail(idx), word)

\* ---- the source store
D_Invoice == [table |-> FORMS_MASTER, rowId |-> <<"1">>,
              name |-> <<"a", ".", "t", "x", "t">>,
              blob |-> <<"invoice", "total", "500">>]
D_Bin == [table |-> VESSEL_CERTIFICATES, rowId |-> <<"2">>,
          name |-> <<"b", ".", "b", "i", "n">>,
          blob |-> <<"invoice">>]
D_Zip == [table |-> SurveyCertificates, rowId |-> <<"3">>,
          name |-> <<"c", ".", "z", "i", "p">>,
          blob |-> <<"archive">>]
D_Pdf == [table |-> VESSEL_CERTIFICATES, rowId |-> <<"4">>,
          name |-> <<"d", ".", "P", "D", "F">>,
          blob |-> <<"survey", "report">>]
D_Note == [table |-> FORMS_MASTER, rowId |-> <<"5">>,
           name |-> <<"e", ".", "t", "x", "t">>,
           blob |-> <<"note">>]
\* Two documents with no text to extract: a picture, and a file without words.
D_Scan == [table |-> SurveyCertificates, rowId |-> <<"6">>,
           name |-> <<"f", ".", "p", "n", "g">>,
           blob |-> <<"stamp">>]
D_Blank == [table |-> FORMS_MASTER, rowId |-> <<"7">>,
            name |-> <<"g", ".", "t", "x", "t">>,
            blob |-> <<>>]
StoreE2E == <<D_Invoice, D_Bin>>
StoreMixed == <<D_Pdf, D_Zip, D_Invoice>>
StoreBatches == <<D_Invoice, D_Pdf, D_Note>>
StoreNoText == <<D_Scan, D_Blank>>
Stores == {<<>>, StoreE2E, StoreMixed}
\* Stores for the panel's requests.
PanelStores == {<<>>, <<D_Pdf, D_Invoice>>}
\* Stores for the batching: one more, fewer and no documents than a batch
\* holds, and documents without text.
BatchStores == {<<>>, StoreE2E, StoreBatches, StoreNoText}

\* A record left in the index by an earlier build, of a row since deleted.
StaleRecord == [id |-> encode(SurveyCertificates, <<"9">>).id,
                name |-> <<"o", "l", "d", ".", "t", "x", "t">>,
                content |-> <<"invoice", "old">>]
InitialIndexes == {<<>>, <<StaleRecord>>}

SearchWords == {"invoice"}

\* ---- IndexingPanel
\* Variant of handleIndexDocuments without the isIndexing test.
handleIndexDocuments_NoGuard(clearExisting) ==
    /\ isIndexing' = TRUE
    /\ indexError' = None
    /\ indexingStatus' = None
    /\ posts' = Append(posts, [from |-> "panel", clear_existing |-> clearExisting])
    /\ panelCalls' = Append(panelCalls, "awaitIndex")
    /\ postsIssued' = postsIssued + 1
    /\ lastClick' = "started"

\* handleIndexDocuments(clearExisting), up to its first await: return at once
\* when a run is in progress, else mark the panel busy and POST /index.
handleIndexDocuments(clearExisting) ==
    IF isIndexing
    THEN /\ lastClick' = "ignored"
         /\ UNCHANGED <<isIndexing, indexError, indexingStatus, posts, panelCalls,
                        postsIssued>>
    ELSE /\ isIndexing' = TRUE
         /\ indexError' = None
         /\ indexingStatus' = None
         /\ posts' = Append(posts, [from |-> "panel", clear_existing |-> clearExisting])
         /\ panelCalls' = Append(panelCalls, "awaitIndex")
         /\ postsIssued' = postsIssued + 1
         /\ lastClick' = "started"

\* Update Index: handleIndexDocuments(false).
ClickUpdate ==
    /\ isIndexing \/ postsIssued < MaxPosts
    /\ handleIndexDocuments(FALSE)
    /\ lastConfirm' = IF isIndexing THEN lastConfirm ELSE None
    /\ UNCHANGED <<store, index, runVars, panelResps, statsReqs, stats, searchHits,
                   searchCount, faults>>
    /\ UNCHANGED clearVars
    /\ UNCHANGED notIndex

\* Variant of ClickRebuild that does not ask.
ClickRebuild_NoConfirm ==
    /\ isIndexing \/ postsIssued < MaxPosts
    /\ handleIndexDocuments(TRUE)
    /\ lastConfirm' = IF isIndexing THEN lastConfirm ELSE None
    /\ UNCHANGED <<store, index, runVars, panelResps, statsReqs, stats, searchHits,
                   searchCount, faults>>
    /\ UNCHANGED clearVars
    /\ UNCHANGED notIndex

\* Rebuild Index: window.confirm(...), and handleIndexDocuments(true) when
\* the user confirms; nothing when the user cancels.
ClickRebuild ==
    /\ isIndexing \/ postsIssued < MaxPosts
    /\ \E answer \in BOOLEAN :
          IF answer
          THEN /\ handleIndexDocuments(TRUE)
               /\ lastConfirm' = IF isIndexing THEN lastConfirm ELSE Some(answer)
          ELSE UNCHANGED <<isIndexing, indexError, indexingStatus, posts, panelCalls,
                           postsIssued, lastClick, lastConfirm>>
    /\ UNCHANGED <<store, index, runVars, panelResps, statsReqs, stats, searchHits,
                   searchCount, faults>>
    /\ UNCHANGED clearVars
    /\ UNCHANGED notIndex

\* Another client (the operator's curl) posts to /api/index.
CurlPostIndex ==
    /\ postsIssued < MaxPosts
    /\ \E c \in BOOLEAN :
          posts' = Append(posts, [from |-> "curl", clear_existing |-> c])
    /\ postsIssued' = postsIssued + 1
    /\ UNCHANGED <<store, index, runVars, panelResps, statsReqs, searchHits,
                   searchCount, faults>>
    /\ UNCHANGED panelVars
    /\ UNCHANGED clearVars
    /\ UNCHANGED notIndex

\* fetchAPI's outcome for the panel: the body when response.ok, else an Error
\* of the body's error message.  Nothing is kept of the reply to another client.
Reply(to, ok, success, st, message) ==
    IF to = "panel"
    THEN Append(panelResps,
                [ok |-> ok, success |-> success, stats |-> st, error |-> message])
    ELSE panelResps

\* ---- the service
\* POST /index arrives.  The run-state flag is tested and set in one step:
\* busy while a run is Running, else a new run starts.
ReceivePost ==
    /\ \E i \in 1..Len(posts) :
          /\ posts' = RemoveAt(posts, i)
          /\ IF runState = "Running"
             THEN /\ panelResps' = Reply(posts[i].from, FALSE, FALSE, ZeroStats, "busy")
                  /\ UNCHANGED <<index, runVars>>
             ELSE /\ runState' = "Running"
                  /\ runPhase' = IF posts[i].clear_existing THEN "clear" ELSE "list"
                  /\ runOwner' = posts[i].from
                  /\ runClear' = posts[i].clear_existing
                  /\ runDocs' = <<>>
                  /\ runNext' = 1
                  /\ batch' = <<>>
                  /\ runStats' = ZeroStats
                  /\ runFaults' = FALSE
                  /\ runCount' = runCount + 1
                  /\ runFlushes' = <<>>
                  /\ UNCHANGED <<index, panelResps, lastOutcome, lastFlush>>
    /\ UNCHANGED <<store, postsIssued, statsReqs, searchHits,
                   searchCount, faults>>
    /\ UNCHANGED panelVars
    /\ UNCHANGED clearVars
    /\ UNCHANGED notIndex

\* clear_existing: SearchIndexClient.clear() before the documents are listed.
RunClear ==
    /\ runState = "Running"
    /\ runPhase = "clear"
    /\ index' = <<>>
    /\ runPhase' = "list"
    /\ UNCHANGED <<runState, runOwner, runClear, runDocs, runNext, batch, runStats,
                   runFaults, runCount, lastOutcome, lastFlush, runFlushes>>
    /\ UNCHANGED <<store, posts, postsIssued, panelResps, statsReqs, searchHits,
                   searchCount, faults>>
    /\ UNCHANGED panelVars
    /\ UNCHANGED clearVars
    /\ UNCHANGED notIndex

\* Step 1: listDocuments() of every table, concatenated.
RunList ==
    /\ runState = "Running"
    /\ runPhase = "list"
    /\ runDocs' = store
    /\ runStats' = [runStats EXCEPT !.total = Len(store)]
    /\ runPhase' = IF store = <<>> THEN "final" ELSE "docs"
    /\ UNCHANGED <<runState, runOwner, runClear, runNext, batch, runFaults, runCount,
                   lastOutcome, lastFlush, runFlushes>>
    /\ UNCHANGED <<store, index, posts, postsIssued, panelResps, statsReqs, searchHits,
                   searchCount, faults>>
    /\ UNCHANGED panelVars
    /\ UNCHANGED clearVars
    /\ UNCHANGED notIndex

\* Variant of reachesBatchSize that waits for the batch to exceed the size.
reachesBatchSize_Exceeds(documents) == Len(documents) > BatchSize

\* Step 3d: the documents list reaches BATCH_SIZE.
reachesBatchSize(documents) == Len(documents) >= BatchSize

\* Variant of RunDocument in which an extractor exception propagates and
\* aborts the run.
RunDocument_ThrowAborts ==
    /\ runState = "Running"
    /\ runPhase = "docs"
    /\ \E fetched \in BOOLEAN, throws \in BOOLEAN, emptyAs \in EmptyOutcomes :
          LET doc == runDocs[runNext]
              out == IF fetched THEN dispatch(doc.name, doc.blob, throws, emptyAs)
                     ELSE [kind |-> "FetchFailed", text |-> <<>>]
              newBatch == IF out.kind = "Extracted"
                          THEN Append(batch, IndexRecord(doc, out.text))
                          ELSE batch
          IN  /\ fetched \/ ~throws
              /\ (fetched /\ ~throws) \/ faults < MaxFaults
              /\ faults' = IF fetched /\ ~throws THEN faults ELSE faults + 1
              /\ runStats' = Count(runStats, out.kind)
              /\ batch' = newBatch
              /\ runFaults' = (runFaults \/ out.kind \in {"FetchFailed", "Failed"})
              /\ lastOutcome' = Some([name |-> doc.name, kind |-> out.kind])
              /\ runNext' = runNext + 1
              /\ runState' = IF out.kind = "Failed" THEN "Aborted" ELSE runState
              /\ runPhase' = IF reachesBatchSize(newBatch) THEN "flush"
                             ELSE IF runNext = Len(runDocs) THEN "final"
                             ELSE "docs"
    /\ UNCHANGED <<runOwner, runClear, runDocs, runCount, lastFlush, runFlushes>>
    /\ UNCHANGED <<store, index, posts, postsIssued, panelResps, statsReqs, searchHits,
                   searchCount>>
    /\ UNCHANGED panelVars
    /\ UNCHANGED clearVars
    /\ UNCHANGED notIndex

\* Steps 2-4 for the next document: fetch the blob, dispatch extraction,
\* count the outcome, append the record of an extracted document to the
\* batch; a full batch is flushed next.
RunDocument ==
    /\ runState = "Running"
    /\ runPhase = "docs"
    /\ \E fetched \in BOOLEAN, throws \in BOOLEAN, emptyAs \in EmptyOutcomes :
          LET doc == runDocs[runNext]
              out == IF fetched THEN dispatch(doc.name, doc.blob, throws, emptyAs)
                     ELSE [kind |-> "FetchFailed", text |-> <<>>]
              newBatch == IF out.kind = "Extracted"
                          THEN Append(batch, IndexRecord(doc, out.text))
                          ELSE batch
          IN  /\ fetched \/ ~throws
              /\ (fetched /\ ~throws) \/ faults < MaxFaults
              /\ faults' = IF fetched /\ ~throws THEN faults ELSE faults + 1
              /\ runStats' = Count(runStats, out.kind)
              /\ batch' = newBatch
              /\ runFaults' = (runFaults \/ out.kind \in {"FetchFailed", "Failed"})
              /\ lastOutcome' = Some([name |-> doc.name, kind |-> out.kind])
              /\ runNext' = runNext + 1
              /\ runPhase' = IF reachesBatchSize(newBatch) THEN "flush"
                             ELSE IF runNext = Len(runDocs) THEN "final"
                             ELSE "docs"
    /\ UNCHANGED <<runState, runOwner, runClear, runDocs, runCount, lastFlush, runFlushes>>
    /\ UNCHANGED <<store, index, posts, postsIssued, panelResps, statsReqs, searchHits,
                   searchCount>>
    /\ UNCHANGED panelVars
    /\ UNCHANGED clearVars
    /\ UNCHANGED notIndex

\* What a flush of the batch leaves on record.
FlushRecord(ok) ==
    Some([size |-> Len(batch), ok |-> ok, before |-> Len(index),
          known |-> \A i \in 1..Len(batch) : \E j \in 1..Len(index) : index[j] = batch[i]])

\* Steps 4 and 5: the call of upsertBatch is made, for a batch that reached
\* the batch size, or for the partial batch that remains when the documents
\* are exhausted.
RunFlushBegin ==
    /\ runState = "Running"
    /\ \/ runPhase = "flush"
       \/ runPhase = "final" /\ batch # <<>>
    /\ runPhase' = "flushing"
    /\ UNCHANGED <<runState, runOwner, runClear, runDocs, runNext, batch, runStats,
                   runFaults, runCount, lastOutcome, lastFlush, runFlushes>>
    /\ UNCHANGED <<store, index, posts, postsIssued, panelResps, statsReqs, searchHits,
                   searchCount, faults>>
    /\ UNCHANGED panelVars
    /\ UNCHANGED clearVars
    /\ UNCHANGED notIndex

\* Variant of RunFlush that takes the run's earlier batches out of the index
\* when the flush fails.
RunFlush_RollsBack ==
    /\ runState = "Running"
    /\ runPhase = "flushing"
    /\ \E ok \in BOOLEAN :
          /\ ok \/ faults < MaxFaults
          /\ faults' = IF ok THEN faults ELSE faults + 1
          /\ lastFlush' = FlushRecord(ok)
          /\ runFlushes' = Append(runFlushes, batch)
          /\ IF ok
             THEN /\ index' = upsertBatch(index, batch)
                  /\ batch' = <<>>
                  /\ runPhase' = IF runNext > Len(runDocs) THEN "final" ELSE "docs"
                  /\ UNCHANGED <<runState, panelResps>>
             ELSE /\ runState' = "Aborted"
                  /\ runPhase' = "none"
                  /\ \E httpOk \in BOOLEAN :
                        panelResps' = Reply(runOwner, httpOk, FALSE, runStats, "aborted")
                  /\ index' = SelectSeq(index, LAMBDA r : \A k \in 1..Len(runFlushes) :
                                                  \A i \in 1..Len(runFlushes[k]) : runFlushes[k][i] # r)
                  /\ UNCHANGED batch
    /\ UNCHANGED <<runOwner, runClear, runDocs, runNext, runStats, runFaults, runCount,
                   lastOutcome>>
    /\ UNCHANGED <<store, posts, postsIssued, statsReqs, searchHits,
                   searchCount>>
    /\ UNCHANGED panelVars
    /\ UNCHANGED clearVars
    /\ UNCHANGED notIndex

\* Steps 4 and 5, the call of upsertBatch returns: the batch is in the index
\* and is cleared.  Losing the index service here aborts the run, the stats
\* so far reported.
RunFlush ==
    /\ runState = "Running"
    /\ runPhase = "flushing"
    /\ \E ok \in BOOLEAN :
          /\ ok \/ faults < MaxFaults
          /\ faults' = IF ok THEN faults ELSE faults + 1
          /\ lastFlush' = FlushRecord(ok)
          /\ runFlushes' = Append(runFlushes, batch)
          /\ IF ok
             THEN /\ index' = upsertBatch(index, batch)
                  /\ batch' = <<>>
                  /\ runPhase' = IF runNext > Len(runDocs) THEN "final" ELSE "docs"
                  /\ UNCHANGED <<runState, panelResps>>
             ELSE /\ runState' = "Aborted"
                  /\ runPhase' = "none"
                  /\ \E httpOk \in BOOLEAN :
                        panelResps' = Reply(runOwner, httpOk, FALSE, runStats, "aborted")
                  /\ UNCHANGED <<index, batch>>
    /\ UNCHANGED <<runOwner, runClear, runDocs, runNext, runStats, runFaults, runCount,
                   lastOutcome>>
    /\ UNCHANGED <<store, posts, postsIssued, statsReqs, searchHits,
                   searchCount>>
    /\ UNCHANGED panelVars
    /\ UNCHANGED clearVars
    /\ UNCHANGED notIndex

\* Variant of RunFinish that drops the remaining partial batch.
RunFinish_NoFinalFlush ==
    /\ runState = "Running"
    /\ runPhase = "final"
    /\ runState' = "Completed"
    /\ runPhase' = "none"
    /\ batch' = <<>>
    /\ panelResps' = Reply(runOwner, TRUE, TRUE, runStats, "")
    /\ UNCHANGED <<index, lastFlush, runFlushes, faults>>
    /\ UNCHANGED <<runOwner, runClear, runDocs, runNext, runStats, runFaults, runCount,
                   lastOutcome>>
    /\ UNCHANGED <<store, posts, postsIssued, statsReqs, searchHits,
                   searchCount>>
    /\ UNCHANGED panelVars
    /\ UNCHANGED clearVars
    /\ UNCHANGED notIndex

\* Step 6: the documents are exhausted and every batch is flushed: the stats
\* are reported.
RunFinish ==
    /\ runState = "Running"
    /\ runPhase = "final"
    /\ batch = <<>>
    /\ runState' = "Completed"
    /\ runPhase' = "none"
    /\ panelResps' = Reply(runOwner, TRUE, TRUE, runStats, "")
    /\ UNCHANGED <<index, batch, lastFlush, runFlushes, faults>>
    /\ UNCHANGED <<runOwner, runClear, runDocs, runNext, runStats, runFaults, runCount,
                   lastOutcome>>
    /\ UNCHANGED <<store, posts, postsIssued, statsReqs, searchHits,
                   searchCount>>
    /\ UNCHANGED panelVars
    /\ UNCHANGED clearVars
    /\ UNCHANGED notIndex

\* POST /search {"query": word} against the index as it is.
PostSearch ==
    /\ searchCount < MaxSearches
    /\ searchCount' = searchCount + 1
    /\ \E w \in SearchWords :
          searchHits' = Some([query |-> w, hits |-> queryIndex(index, w)])
    /\ UNCHANGED <<store, index, runVars, posts, postsIssued, panelResps, statsReqs,
                   faults>>
    /\ UNCHANGED panelVars
    /\ UNCHANGED clearVars
    /\ UNCHANGED notIndex

\* Variant of IndexSettles without the finally clause on a rejection.
IndexSettles_NoFinally ==
    /\ panelResps # <<>>
    /\ panelCalls # <<>>
    /\ Head(panelCalls) = "awaitIndex"
    /\ panelResps' = Tail(panelResps)
    /\ IF Head(panelResps).ok
       THEN /\ indexingStatus' = Some([success |-> Head(panelResps).success,
                                       stats |-> Head(panelResps).stats])
            /\ statsReqs' = statsReqs + 1
            /\ panelCalls' = <<"awaitStats">> \o Tail(panelCalls)
            /\ UNCHANGED <<isIndexing, indexError>>
       ELSE /\ indexError' = Some(Head(panelResps).error)
            /\ panelCalls' = Tail(panelCalls)
            /\ UNCHANGED <<isIndexing, indexingStatus, statsReqs>>
    /\ UNCHANGED <<stats, lastClick, lastConfirm>>
    /\ UNCHANGED <<store, index, runVars, posts, postsIssued, searchHits,
                   searchCount, faults>>
    /\ UNCHANGED clearVars
    /\ UNCHANGED notIndex

\* ---- IndexingPanel, after the awaits
\* handleIndexDocuments after await triggerIndexing: resolved ->
\* setIndexingStatus(result), then fetchStats(); rejected -> setError, and the
\* finally clause clears isIndexing.
IndexSettles ==
    /\ panelResps # <<>>
    /\ panelCalls # <<>>
    /\ Head(panelCalls) = "awaitIndex"
    /\ panelResps' = Tail(panelResps)
    /\ IF Head(panelResps).ok
       THEN /\ indexingStatus' = Some([success |-> Head(panelResps).success,
                                       stats |-> Head(panelResps).stats])
            /\ statsReqs' = statsReqs + 1
            /\ panelCalls' = <<"awaitStats">> \o Tail(panelCalls)
            /\ UNCHANGED <<isIndexing, indexError>>
       ELSE /\ indexError' = Some(Head(panelResps).error)
            /\ isIndexing' = FALSE
            /\ panelCalls' = Tail(panelCalls)
            /\ UNCHANGED <<indexingStatus, statsReqs>>
    /\ UNCHANGED <<stats, lastClick, lastConfirm>>
    /\ UNCHANGED <<store, index, runVars, posts, postsIssued, searchHits,
                   searchCount, faults>>
    /\ UNCHANGED clearVars
    /\ UNCHANGED notIndex

\* ---- fetchStats
\* The fetchStats call that handleIndexDocuments awaits, and how many
\* GET /stats requests in flight are its own.
AwaitedByRun == panelCalls # <<>> /\ Head(panelCalls) = "awaitStats"
StatsOfRun == IF AwaitedByRun THEN 1 ELSE 0

\* 'Load Statistics' (shown while stats is null) or 'Refresh' (shown once
\* stats is set, disabled while isIndexing) is clicked: fetchStats() issues
\* GET /stats.
ClickStats ==
    /\ stats = None \/ ~isIndexing
    /\ statsReqs - StatsOfRun < MaxStatsReqs
    /\ statsReqs' = statsReqs + 1
    /\ UNCHANGED panelVars
    /\ UNCHANGED <<store, index, runVars, posts, postsIssued, panelResps, searchHits,
                   searchCount, faults>>
    /\ UNCHANGED clearVars
    /\ UNCHANGED notIndex

\* fetchStats returns to handleIndexDocuments, whose finally clause clears
\* isIndexing.
ReturnToRun ==
    /\ AwaitedByRun
    /\ isIndexing' = FALSE
    /\ panelCalls' = Tail(panelCalls)

\* fetchStats was called by a click: nothing follows it.
ReturnToClick ==
    /\ statsReqs > StatsOfRun
    /\ UNCHANGED <<isIndexing, panelCalls>>

\* fetchStats after await getStats, resolved: setStats(data).
StatsResolves ==
    /\ statsReqs > 0
    /\ statsReqs' = statsReqs - 1
    /\ stats' = Some([numberOfDocuments |-> Len(index)])
    /\ ReturnToRun \/ ReturnToClick
    /\ UNCHANGED <<indexingStatus, indexError, lastClick, lastConfirm>>
    /\ UNCHANGED <<store, index, runVars, posts, postsIssued, panelResps, searchHits,
                   searchCount, faults>>
    /\ UNCHANGED clearVars
    /\ UNCHANGED notIndex

\* Variant of StatsRejects in which fetchStats lets the rejection through to
\* the catch clause of handleIndexDocuments.
StatsRejects_Rethrows ==
    /\ statsReqs > 0
    /\ statsReqs' = statsReqs - 1
    /\ \/ ReturnToRun /\ indexError' = Some("stats")
       \/ ReturnToClick /\ UNCHANGED indexError
    /\ UNCHANGED <<stats, indexingStatus, lastClick, lastConfirm>>
    /\ UNCHANGED <<store, index, runVars, posts, postsIssued, panelResps, searchHits,
                   searchCount, faults>>
    /\ UNCHANGED clearVars
    /\ UNCHANGED notIndex

\* fetchStats after await getStats, rejected: logged and swallowed.
StatsRejects ==
    /\ statsReqs > 0
    /\ statsReqs' = statsReqs - 1
    /\ ReturnToRun \/ ReturnToClick
    /\ UNCHANGED <<stats, indexingStatus, indexError, lastClick, lastConfirm>>
    /\ UNCHANGED <<store, index, runVars, posts, postsIssued, panelResps, searchHits,
                   searchCount, faults>>
    /\ UNCHANGED clearVars
    /\ UNCHANGED notIndex

\* ---- POST /index/clear
\* Another client (the operator's curl) posts to /api/index/clear.
PostClear ==
    /\ clearsIssued < MaxClears
    /\ clearsIssued' = clearsIssued + 1
    /\ clearReqs' = clearReqs + 1
    /\ UNCHANGED clearing
    /\ UNCHANGED <<panelVars, posts, postsIssued, panelResps, statsReqs, store, index,
                   runVars, searchHits, searchCount, faults>>
    /\ UNCHANGED notIndex

\* POST /index/clear arrives: SearchIndexClient.clear() is called, whatever
\* a run or another such request is doing.
ClearBegin ==
    /\ clearReqs > 0
    /\ clearReqs' = clearReqs - 1
    /\ clearing' = clearing + 1
    /\ UNCHANGED clearsIssued
    /\ UNCHANGED <<panelVars, posts, postsIssued, panelResps, statsReqs, store, index,
                   runVars, searchHits, searchCount, faults>>
    /\ UNCHANGED notIndex

\* clear() returns: all records are removed; {success, message} is sent.
ClearEnd ==
    /\ clearing > 0
    /\ clearing' = clearing - 1
    /\ index' = <<>>
    /\ UNCHANGED <<clearReqs, clearsIssued>>
    /\ UNCHANGED <<panelVars, posts, postsIssued, panelResps, statsReqs, store,
                   runVars, searchHits, searchCount, faults>>
    /\ UNCHANGED notIndex

(***************************************************************************)
(* DOCUMENT URLS: lib/api.js getDocumentViewUrl, getDocumentProxyUrl,      *)
(* getDocumentMetadata                                                     *)
(***************************************************************************)
API_URL == <<"h", "t", "t", "p", ":", "/", "/", "l", "o", "c", "a", "l", "h", "o", "s", "t", ":", "5", "0", "0", "1", "/", "a", "p", "i">>
IMAGE_EXTENSIONS == {<<".", "j", "p", "g">>, <<".", "j", "p", "e", "g">>, <<".", "p", "n", "g">>, <<".", "g", "i", "f">>, <<".", "b", "m", "p">>, <<".", "t", "i", "f", "f">>, <<".", "t", "i", "f">>, <<".", "w", "e", "b", "p">>}

endsWith(s, suffix) ==
    /\ Len(suffix) <= Len(s)
    /\ SubSeq(s, Len(s) - Len(suffix) + 1, Len(s)) = suffix

\* The characters of the model that encodeURIComponent escapes, and their
\* escapes.
PercentCodes ==
    [c \in {":", "/", "%", " ", "&", "#", "?", "="} |->
        CASE c = ":" -> <<"%", "3", "A">>
          [] c = "/" -> <<"%", "2", "F">>
          [] c = "%" -> <<"%", "2", "5">>
          [] c = " " -> <<"%", "2", "0">>
          [] c = "&" -> <<"%", "2", "6">>
          [] c = "#" -> <<"%", "2", "3">>
          [] c = "?" -> <<"%", "3", "F">>
          [] c = "=" -> <<"%", "3", "D">>]

\* Variant of encodeURIComponent that escapes like encodeURI, which leaves the
\* reserved characters : / ? # & = as they are.
RECURSIVE encodeURIComponent_AsEncodeURI(_)
encodeURIComponent_AsEncodeURI(s) ==
    IF s = <<>> THEN <<>>
    ELSE (IF Head(s) \in {"%", " "} THEN PercentCodes[Head(s)] ELSE <<Head(s)>>)
         \o encodeURIComponent_AsEncodeURI(Tail(s))

\* encodeURIComponent: every character but the unreserved ones is escaped.
RECURSIVE encodeURIComponent(_)
encodeURIComponent(s) ==
    IF s = <<>> THEN <<>>
    ELSE (IF Head(s) \in DOMAIN PercentCodes THEN PercentCodes[Head(s)] ELSE <<Head(s)>>)
         \o encodeURIComponent(Tail(s))

\* Percent-decoding, as the service does on the path segment:
\* [ok, value], not ok for a malformed escape.
RECURSIVE percentDecode(_)
percentDecode(s) ==
    IF s = <<>> THEN [ok |-> TRUE, value |-> <<>>]
    ELSE IF Head(s) = "%"
    THEN LET cs == {c \in DOMAIN PercentCodes :
                       Len(s) >= 3 /\ PercentCodes[c] = SubSeq(s, 1, 3)}
         IN  IF cs = {} THEN [ok |-> FALSE, value |-> <<>>]
             ELSE LET rest == percentDecode(SubSeq(s, 4, Len(s)))
                  IN  [ok |-> rest.ok, value |-> <<CHOOSE c \in cs : TRUE>> \o rest.value]
    ELSE LET rest == percentDecode(Tail(s))
         IN  [ok |-> rest.ok, value |-> <<Head(s)>> \o rest.value]

\* `${API_URL}/document/${encodeURIComponent(documentId)}/proxy`
getDocumentProxyUrl(documentId) ==
    API_URL \o <<"/", "d", "o", "c", "u", "m", "e", "n", "t", "/">> \o encodeURIComponent(documentId)
            \o <<"/", "p", "r", "o", "x", "y">>

\* getDocumentMetadata: fetchAPI(`/document/${encodeURIComponent(documentId)}`),
\* fetchAPI putting API_URL before the endpoint.
getDocumentMetadataUrl(documentId) ==
    API_URL \o <<"/", "d", "o", "c", "u", "m", "e", "n", "t", "/">> \o encodeURIComponent(documentId)

GoogleViewerUrl(fileUrl) ==
    <<"h", "t", "t", "p", "s", ":", "/", "/", "d", "o", "c", "s", ".", "g", "o", "o", "g", "l", "e", ".", "c", "o", "m", "/", "v", "i", "e", "w", "e", "r", "?", "u", "r", "l", "=">> \o encodeURIComponent(fileUrl)
        \o <<"&", "e", "m", "b", "e", "d", "d", "e", "d", "=", "t", "r", "u", "e">>

\* A page number in decimal; the pages of the model have one digit.
PageDigits(n) == <<CASE n = 1 -> "1" [] n = 2 -> "2" [] n = 3 -> "3" [] OTHER -> "4">>

\* getDocumentViewUrl(documentId, query, pageNumber, documentName, viewerType)
getDocumentViewUrl(documentId, q, pageNumber, documentName, viewerType) ==
    IF documentName # <<>>
       /\ \E ext \in IMAGE_EXTENSIONS : endsWith(toLowerCase(documentName), ext)
    THEN getDocumentProxyUrl(documentId)
    ELSE IF documentName # <<>>
            /\ (\/ endsWith(toLowerCase(documentName), <<".", "d", "o", "c", "x">>)
                \/ endsWith(toLowerCase(documentName), <<".", "d", "o", "c">>))
    THEN GoogleViewerUrl(getDocumentProxyUrl(documentId))
    ELSE IF viewerType = "google"
    THEN GoogleViewerUrl(getDocumentProxyUrl(documentId))
    ELSE LET viewerUrl == <<"/", "p", "d", "f", "j", "s", "/", "w", "e", "b", "/", "v", "i", "e", "w", "e", "r", ".", "h", "t", "m", "l", "?", "f", "i", "l", "e", "=">>
                              \o encodeURIComponent(getDocumentProxyUrl(documentId))
             pagePart == IF pageNumber # NoPage
                         THEN <<"p", "a", "g", "e", "=">> \o PageDigits(pageNumber)
                         ELSE <<>>
             fragment == IF q # <<>>
                         THEN pagePart \o (IF pagePart # <<>> THEN <<"&">> ELSE <<>>)
                              \o <<"s", "e", "a", "r", "c", "h", "=">> \o encodeURIComponent(q)
                         ELSE pagePart
         IN  IF fragment # <<>> THEN viewerUrl \o <<"#">> \o fragment ELSE viewerUrl

\* ---- what the service is asked for
\* The first position at or after i where one of the characters stands, or
\* one past the end.
FirstOf(s, cs, i) ==
    Min({j \in i..Len(s) : s[j] \in cs} \cup {Len(s) + 1})

\* The first position where sub stands in s, or 0.
IndexOf(s, sub) ==
    LET at == {i \in 1..(Len(s) - Len(sub) + 1) : SubSeq(s, i, i + Len(sub) - 1) = sub}
    IN  IF at = {} THEN 0 ELSE Min(at)

\* The URL a viewer (Google Docs, PDF.js) fetches: the value of the first
\* parameter of the viewer URL, percent-decoded once.
ViewerTarget(url) ==
    LET from == FirstOf(url, {"="}, 1) + 1
        to == FirstOf(url, {"&", "#"}, from) - 1
    IN  percentDecode(SubSeq(url, from, to))

\* The path segment after /document/ of a request URL, percent-decoded:
\* the composite id the service hands to DocumentIdentity.decode.
RequestedId(url) ==
    LET at == IndexOf(url, <<"/", "d", "o", "c", "u", "m", "e", "n", "t", "/">>)
        from == at + 10
        to == FirstOf(url, {"/", "?", "#"}, from) - 1
    IN  IF at = 0 THEN [ok |-> FALSE, value |-> <<>>]
        ELSE percentDecode(SubSeq(url, from, to))

\* ---- the inputs
UrlIdAlphabet == {"A", "1", ":", "/", "%", " "}
UrlIds == Strs(UrlIdAlphabet, 1, MaxUrlIdLen)
UrlNames == {<<>>, <<"a", ".", "p", "d", "f">>, <<"b", ".", "P", "N", "G">>, <<"c", ".", "d", "o", "c", "x">>, <<"d", ".", "d", "o", "c">>}
UrlQueries == {<<>>, <<"a", " ", "&">>}
UrlPages == {NoPage, 2}
ViewerTypes == {"pdfjs", "google"}

\* DocumentCard.handleView / DocViewer: getDocumentViewUrl is called.
CallGetDocumentViewUrl ==
    /\ urlBuilt = None
    /\ urlBuilt' = Some([by |-> "getDocumentViewUrl",
                         url |-> getDocumentViewUrl(urlDocumentId, urlQuery, urlPageNumber,
                                                    urlDocumentName, urlViewerType)])
    /\ UNCHANGED <<urlDocumentId, urlDocumentName, urlQuery, urlPageNumber,
                   urlViewerType, urlRequested>>
    /\ UNCHANGED notUrl

\* getDocumentProxyUrl is called.
CallGetDocumentProxyUrl ==
    /\ urlBuilt = None
    /\ urlBuilt' = Some([by |-> "getDocumentProxyUrl",
                         url |-> getDocumentProxyUrl(urlDocumentId)])
    /\ UNCHANGED <<urlDocumentId, urlDocumentName, urlQuery, urlPageNumber,
                   urlViewerType, urlRequested>>
    /\ UNCHANGED notUrl

\* getDocumentMetadata is called.
CallGetDocumentMetadata ==
    /\ urlBuilt = None
    /\ urlBuilt' = Some([by |-> "getDocumentMetadata",
                         url |-> getDocumentMetadataUrl(urlDocumentId)])
    /\ UNCHANGED <<urlDocumentId, urlDocumentName, urlQuery, urlPageNumber,
                   urlViewerType, urlRequested>>
    /\ UNCHANGED notUrl

\* The URL is one of a viewer when it does not start with API_URL.
IsViewerUrl(url) == ~startsWith(url, API_URL)

\* The request reaches the service: directly, or from the viewer the URL
\* opens, which fetches the URL it was given.
ServiceReceives ==
    /\ urlBuilt # None
    /\ urlRequested = None
    /\ LET url == urlBuilt[1].url
           target == IF IsViewerUrl(url) THEN ViewerTarget(url)
                     ELSE [ok |-> TRUE, value |-> url]
       IN  urlRequested' = Some(IF target.ok THEN RequestedId(target.value)
                                ELSE [ok |-> FALSE, value |-> <<>>])
    /\ UNCHANGED <<urlDocumentId, urlDocumentName, urlQuery, urlPageNumber,
                   urlViewerType, urlBuilt>>
    /\ UNCHANGED notUrl

(***************************************************************************)
(* DOCUMENT CARD: DocumentCard (foundOnPage, handleView), in its two       *)
(* versions                                                                *)
(***************************************************************************)
\* (document.name || '').split('.').pop().toLowerCase(): what follows the
\* last dot, the whole name when it has none.
ext(name) ==
    LET dots == {i \in 1..Len(name) : name[i] = "."}
    IN  toLowerCase(SubSeq(name, (IF dots = {} THEN 0 ELSE Max(dots)) + 1, Len(name)))

\* Variant of isPDF that holds of every name.
isPDF_Always(impl, name) == TRUE

\* isPDF: ext === 'pdf' in the card of part_004,
\* document.name.toLowerCase().endsWith('.pdf') in the one of SearchResults.js.
isPDF(impl, name) ==
    IF impl = "part_004" THEN ext(name) = <<"p", "d", "f">>
    ELSE endsWith(toLowerCase(name), <<".", "p", "d", "f">>)

\* isDocx of the card of part_004.
isDocx(name) == ext(name) \in {<<"d", "o", "c", "x">>, <<"d", "o", "c">>}

\* foundOnPage, as the card computes it when it renders.
foundOnPageOf(impl, document, name, q) ==
    IF impl = "part_004"
    THEN IF isPDF(impl, name) THEN findPageNumber(document, q) ELSE NoPage
    ELSE IF q # <<>> /\ isPDF(impl, name) THEN findPageNumber(document, q) ELSE NoPage

\* The id of the hit on the card.
CardId == encode(FORMS_MASTER, <<"1">>).id

\* The characters of the model that URLSearchParams.toString() escapes and
\* encodeURIComponent leaves, and their escapes.
FormCodes ==
    [c \in {"!", "~", "'", "(", ")"} |->
        CASE c = "!" -> <<"%", "2", "1">>
          [] c = "~" -> <<"%", "7", "E">>
          [] c = "'" -> <<"%", "2", "7">>
          [] c = "(" -> <<"%", "2", "8">>
          [] c = ")" -> <<"%", "2", "9">>]

\* A value as new URLSearchParams({...}).toString() writes it: a space
\* becomes '+', every character but the letters, the digits and * - . _ is
\* escaped.
RECURSIVE urlencoded(_)
urlencoded(s) ==
    IF s = <<>> THEN <<>>
    ELSE (IF Head(s) = " " THEN <<"+">>
          ELSE IF Head(s) \in DOMAIN FormCodes THEN FormCodes[Head(s)]
          ELSE IF Head(s) \in DOMAIN PercentCodes THEN PercentCodes[Head(s)]
          ELSE <<Head(s)>>)
         \o urlencoded(Tail(s))

\* handleView: what window.open is given, and the page handed to
\* getDocumentViewUrl.  The card of part_004 takes no viewer type and asks
\* for 'pdfjs'; the one of SearchResults.js hands its viewerType on for a
\* PDF and leaves it to the default of getDocumentViewUrl otherwise.
handleView(impl, document, name, q, viewerType) ==
    IF impl = "part_004" /\ isDocx(name)
    THEN [pageNumber |-> NoPage,
          url |-> <<"/", "v", "i", "e", "w", "e", "r", "?", "i", "d", "=">> \o urlencoded(CardId)
                  \o <<"&", "n", "a", "m", "e", "=">> \o urlencoded(name)]
    ELSE IF isPDF(impl, name)
    THEN LET pageNumber == findPageNumber(document, q)
         IN  [pageNumber |-> pageNumber,
              url |-> getDocumentViewUrl(CardId, q, pageNumber, name,
                                         IF impl = "part_004" THEN "pdfjs" ELSE viewerType)]
    ELSE [pageNumber |-> NoPage,
          url |-> getDocumentViewUrl(CardId, <<>>, NoPage, name, "pdfjs")]

\* The buttons of the card that call handleView: the card itself and 'View'
\* with 'pdfjs'; 'Google', which the card of SearchResults.js has for a PDF.
ViewButtons(impl, name) ==
    IF impl = "SearchResults.js" /\ isPDF(impl, name) THEN ViewerTypes ELSE {"pdfjs"}

\* ---- 'Match in'
\* A JavaScript value of a field of _formatted: undefined, a string, or an
\* array of strings (str: its characters, or those of its only element).
JsUndefined == [type |-> "undefined", str |-> <<>>]
JsString(chars) == [type |-> "string", str |-> chars]
JsArray(chars) == [type |-> "array", str |-> chars]
EmTag == <<"<", "e", "m", ">">>

\* Variant of hasEm without the typeof test: an array has includes() too.
hasEm_NoTypeTest(v) ==
    CASE v.type = "string" -> includes(v.str, EmTag)
      [] v.type = "array" -> v.str = EmTag
      [] OTHER -> FALSE

\* hasEm: typeof str === 'string' && str.includes('<em>')
hasEm(v) == v.type = "string" /\ includes(v.str, EmTag)

\* document._formatted?.field
FormattedField(formatted, field) ==
    IF formatted.present THEN formatted[field] ELSE JsUndefined

\* A label of matchIn: the field's, and the page of 'Content . Page n'.
Label(field, page) == [field |-> field, page |-> page]

\* matchIn, as the card builds it when it renders.
matchInOf(formatted, found) ==
    (IF hasEm(FormattedField(formatted, "name")) THEN <<Label("Filename", NoPage)>> ELSE <<>>)
    \o (IF hasEm(FormattedField(formatted, "title")) THEN <<Label("Title", NoPage)>> ELSE <<>>)
    \o (IF hasEm(FormattedField(formatted, "form_no")) THEN <<Label("Form No", NoPage)>> ELSE <<>>)
    \o (IF hasEm(FormattedField(formatted, "content"))
        THEN <<Label("Content", IF found # NoPage THEN found ELSE NoPage)>>
        ELSE <<>>)

\* What a field of _formatted may hold: nothing, plain text, highlighted
\* text, the tag alone in an array.
FormattedValues ==
    {JsUndefined, JsString(<<"a">>), JsString(<<"a">> \o EmTag \o <<"b">>), JsArray(EmTag)}
NoFormatted ==
    [present |-> FALSE, name |-> JsUndefined, title |-> JsUndefined,
     form_no |-> JsUndefined, content |-> JsUndefined]
Formatteds ==
    {NoFormatted} \cup
    {[present |-> TRUE, name |-> n, title |-> t, form_no |-> f, content |-> c] :
        n \in FormattedValues, t \in FormattedValues, f \in FormattedValues,
        c \in FormattedValues}
MatchInNames == {<<"a", ".", "p", "d", "f">>, <<"d", ".", "t", "x", "t">>}
MatchInQueries == {q \in LocQueries : Len(q) = 1}

\* The hits are index records: their names have an extension with an
\* extractor.
CardNames == {<<"a", ".", "p", "d", "f">>, <<"b", ".", "P", "D", "F">>, <<"c", ".", "d", "o", "c", "x">>, <<"d", ".", "t", "x", "t">>, <<"e", ".", "p", "n", "g">>, <<"p", "d", "f", ".", "t", "x", "t">>, <<"m", " ", "(", "1", ")", ".", "d", "o", "c">>}
CardImpls == {"part_004", "SearchResults.js"}
\* Hits of at most one page.
CardDocuments == {d \in LocDocuments : Len(d.page_info) <= 1}

\* The card renders.
RenderCard ==
    /\ foundOnPage' = Some(foundOnPageOf(cardImpl, locDocument, cardName, locQuery))
    /\ matchIn' = IF cardImpl = "part_004"
                  THEN Some(matchInOf(cardFormatted,
                                      foundOnPageOf(cardImpl, locDocument, cardName, locQuery)))
                  ELSE None
    /\ UNCHANGED <<cardImpl, cardName, cardOpened, cardFormatted>>
    /\ UNCHANGED notCard

\* The card or one of its view buttons is clicked.
ClickView ==
    /\ foundOnPage # None
    /\ \E viewerType \in ViewButtons(cardImpl, cardName) :
          cardOpened' = Some(handleView(cardImpl, locDocument, cardName, locQuery, viewerType))
    /\ UNCHANGED <<cardImpl, cardName, foundOnPage, cardFormatted, matchIn>>
    /\ UNCHANGED notCard

(***************************************************************************)
(* PAGINATION: getPageNumbers(currentPage, totalPages)                     *)
(***************************************************************************)
\* Pagination renders: if (totalPages <= 1) return null, else it calls
\* getPageNumbers.
CallGetPageNumbers ==
    /\ pageNumbers = None
    /\ pnTotalPages > 1
    /\ pageNumbers' = Some(getPageNumbers(pnCurrentPage, pnTotalPages))
    /\ UNCHANGED <<pnCurrentPage, pnTotalPages>>
    /\ UNCHANGED notPages

(***************************************************************************)
(* DOC VIEWER: DocViewerModal, its effect on [isOpen, documentId] and the  *)
(* async function the effect starts                                        *)
(***************************************************************************)
\* The container div is rendered only while isOpen: closed, containerRef
\* holds no element.
NoContainer == [mounted |-> FALSE, el |-> 0, html |-> <<>>]

\* The documents a parent may hand to the modal.
ViewerDocs == {<<"A">>, <<"B">>}

\* The effect had passed its guard and so returned a cleanup.
EffectRan == dvIsOpen /\ dvDocumentId # <<>>

\* The parent renders the modal with other props.  React commits the
\* render (the container is mounted while isOpen, a new element each time
\* the modal opens), runs the cleanup of the effect of the last props, which
\* empties the container, and the effect of the new ones: nothing unless
\* isOpen && documentId, else status 'loading', errorMsg '', the container
\* emptied, and the async function started on getDocumentProxyUrl(documentId).
SetProps ==
    \E open \in BOOLEAN, doc \in ViewerDocs \cup {<<>>} :
        LET runs == open /\ doc # <<>>
            kept == IF EffectRan \/ runs THEN [dvContainer EXCEPT !.html = <<>>]
                    ELSE dvContainer
        IN  /\ <<open, doc>> # <<dvIsOpen, dvDocumentId>>
            /\ runs => dvEffects < MaxEffects
            /\ (open /\ ~dvIsOpen) => dvContainer.el < MaxEffects
            /\ dvIsOpen' = open
            /\ dvDocumentId' = doc
            /\ dvContainer' =
                  IF ~open THEN [dvContainer EXCEPT !.mounted = FALSE, !.html = <<>>]
                  ELSE IF ~dvIsOpen
                  THEN [mounted |-> TRUE, el |-> dvContainer.el + 1, html |-> <<>>]
                  ELSE kept
            /\ dvStatus' = IF runs THEN "loading" ELSE dvStatus
            /\ dvErrorMsg' = IF runs THEN <<>> ELSE dvErrorMsg
            /\ dvTasks' = IF runs
                          THEN Append(dvTasks, [doc |-> doc, pc |-> "fetch", el |-> 0])
                          ELSE dvTasks
            /\ dvEffects' = IF runs THEN dvEffects + 1 ELSE dvEffects
            /\ UNCHANGED notViewer

\* await fetch(proxyUrl), response.ok, await response.blob(), await
\* import('docx-preview'): the async function has the blob and renderAsync.
TaskFetched ==
    /\ \E i \in 1..Len(dvTasks) :
          /\ dvTasks[i].pc = "fetch"
          /\ dvTasks' = [dvTasks EXCEPT ![i].pc = "fetched"]
    /\ UNCHANGED <<dvIsOpen, dvDocumentId, dvStatus, dvErrorMsg, dvContainer, dvEffects>>
    /\ UNCHANGED notViewer

\* The fetch fails or is answered not ok, or renderAsync throws: the catch
\* clause sets errorMsg and status 'error'.
TaskFails ==
    /\ \E i \in 1..Len(dvTasks) :
          /\ dvTasks[i].pc \in {"fetch", "rendering"}
          /\ dvTasks' = RemoveAt(dvTasks, i)
          /\ dvErrorMsg' = dvTasks[i].doc
    /\ dvStatus' = "error"
    /\ UNCHANGED <<dvIsOpen, dvDocumentId, dvContainer, dvEffects>>
    /\ UNCHANGED notViewer

\* if (!containerRef.current) return; renderAsync(blob, containerRef.current,
\* ...) is called with the element mounted at that moment.
TaskRenderCall ==
    /\ \E i \in 1..Len(dvTasks) :
          /\ dvTasks[i].pc = "fetched"
          /\ dvTasks' = IF dvContainer.mounted
                        THEN [dvTasks EXCEPT ![i].pc = "rendering",
                                             ![i].el = dvContainer.el]
                        ELSE RemoveAt(dvTasks, i)
    /\ UNCHANGED <<dvIsOpen, dvDocumentId, dvStatus, dvErrorMsg, dvContainer, dvEffects>>
    /\ UNCHANGED notViewer

\* renderAsync has parsed the blob and puts the document into the element
\* it was given, in place of what the element held; an element no longer
\* mounted is not the one on screen.
TaskRenderWrite ==
    /\ \E i \in 1..Len(dvTasks) :
          /\ dvTasks[i].pc = "rendering"
          /\ dvTasks' = [dvTasks EXCEPT ![i].pc = "rendered"]
          /\ dvContainer' =
                IF dvContainer.mounted /\ dvContainer.el = dvTasks[i].el
                THEN [dvContainer EXCEPT !.html = dvTasks[i].doc]
                ELSE dvContainer
    /\ UNCHANGED <<dvIsOpen, dvDocumentId, dvStatus, dvErrorMsg, dvEffects>>
    /\ UNCHANGED notViewer

\* await renderAsync(...) returns: setStatus('done').
TaskDone ==
    /\ \E i \in 1..Len(dvTasks) :
          /\ dvTasks[i].pc = "rendered"
          /\ dvTasks' = RemoveAt(dvTasks, i)
    /\ dvStatus' = "done"
    /\ UNCHANGED <<dvIsOpen, dvDocumentId, dvErrorMsg, dvContainer, dvEffects>>
    /\ UNCHANGED notViewer

(***************************************************************************)
(* SPECIFICATIONS                                                          *)
(***************************************************************************)
InitLocator ==
    /\ locDocument \in LocDocuments
    /\ locQuery \in LocQueries
    /\ locResult = NoPage
    /\ locPc = "ready"
    /\ idPairs = [k \in 1..2 |-> [table |-> FORMS_MASTER, rowId |-> <<"1">>]]
    /\ idEncoded = None
    /\ idDecoded = None
    /\ idSource = None
    /\ sbQuery = <<>>
    /\ lastSubmit = "none"
    /\ query = <<>>
    /\ isLoading = FALSE
    /\ results = None
    /\ error = None
    /\ currentPage = 1
    /\ searchReqs = <<>>
    /\ isIndexing = FALSE
    /\ indexingStatus = None
    /\ indexError = None
    /\ stats = None
    /\ panelCalls = <<>>
    /\ lastClick = "none"
    /\ lastConfirm = None
    /\ posts = <<>>
    /\ postsIssued = 0
    /\ panelResps = <<>>
    /\ statsReqs = 0
    /\ store = <<>>
    /\ index = <<>>
    /\ runState = "Idle"
    /\ runPhase = "none"
    /\ runOwner = "panel"
    /\ runClear = FALSE
    /\ runDocs = <<>>
    /\ runNext = 1
    /\ batch = <<>>
    /\ runStats = ZeroStats
    /\ runFaults = FALSE
    /\ runCount = 0
    /\ lastOutcome = None
    /\ lastFlush = None
    /\ runFlushes = <<>>
    /\ searchHits = None
    /\ searchCount = 0
    /\ faults = 0
    /\ clearReqs = 0
    /\ clearsIssued = 0
    /\ clearing = 0
    /\ urlDocumentId = <<"A">>
    /\ urlDocumentName = <<>>
    /\ urlQuery = <<>>
    /\ urlPageNumber = NoPage
    /\ urlViewerType = "pdfjs"
    /\ urlBuilt = None
    /\ urlRequested = None
    /\ cardImpl = "part_004"
    /\ cardName = <<>>
    /\ foundOnPage = None
    /\ cardOpened = None
    /\ cardFormatted = NoFormatted
    /\ matchIn = None
    /\ fetchResult = [failed |-> TRUE, status |-> 0, body |-> NotJsonBody]
    /\ fetchOutcome = None
    /\ pnCurrentPage = 1
    /\ pnTotalPages = 1
    /\ pageNumbers = None
    /\ dvIsOpen = FALSE
    /\ dvDocumentId = <<>>
    /\ dvStatus = "idle"
    /\ dvErrorMsg = <<>>
    /\ dvContainer = NoContainer
    /\ dvTasks = <<>>
    /\ dvEffects = 0

NextLocator == CallFindPageNumber

SpecLocator == InitLocator /\ [][NextLocator]_vars

InitIdentity ==
    /\ locDocument = [hasPageInfo |-> FALSE, page_info |-> <<>>]
    /\ locQuery = <<"a">>
    /\ locResult = NoPage
    /\ locPc = "ready"
    /\ idPairs \in [1..2 -> SourceRows]
    /\ idEncoded = None
    /\ idDecoded = None
    /\ idSource = None
    /\ sbQuery = <<>>
    /\ lastSubmit = "none"
    /\ query = <<>>
    /\ isLoading = FALSE
    /\ results = None
    /\ error = None
    /\ currentPage = 1
    /\ searchReqs = <<>>
    /\ isIndexing = FALSE
    /\ indexingStatus = None
    /\ indexError = None
    /\ stats = None
    /\ panelCalls = <<>>
    /\ lastClick = "none"
    /\ lastConfirm = None
    /\ posts = <<>>
    /\ postsIssued = 0
    /\ panelResps = <<>>
    /\ statsReqs = 0
    /\ store = <<>>
    /\ index = <<>>
    /\ runState = "Idle"
    /\ runPhase = "none"
    /\ runOwner = "panel"
    /\ runClear = FALSE
    /\ runDocs = <<>>
    /\ runNext = 1
    /\ batch = <<>>
    /\ runStats = ZeroStats
    /\ runFaults = FALSE
    /\ runCount = 0
    /\ lastOutcome = None
    /\ lastFlush = None
    /\ runFlushes = <<>>
    /\ searchHits = None
    /\ searchCount = 0
    /\ faults = 0
    /\ clearReqs = 0
    /\ clearsIssued = 0
    /\ clearing = 0
    /\ urlDocumentId = <<"A">>
    /\ urlDocumentName = <<>>
    /\ urlQuery = <<>>
    /\ urlPageNumber = NoPage
    /\ urlViewerType = "pdfjs"
    /\ urlBuilt = None
    /\ urlRequested = None
    /\ cardImpl = "part_004"
    /\ cardName = <<>>
    /\ foundOnPage = None
    /\ cardOpened = None
    /\ cardFormatted = NoFormatted
    /\ matchIn = None
    /\ fetchResult = [failed |-> TRUE, status |-> 0, body |-> NotJsonBody]
    /\ fetchOutcome = None
    /\ pnCurrentPage = 1
    /\ pnTotalPages = 1
    /\ pageNumbers = None
    /\ dvIsOpen = FALSE
    /\ dvDocumentId = <<>>
    /\ dvStatus = "idle"
    /\ dvErrorMsg = <<>>
    /\ dvContainer = NoContainer
    /\ dvTasks = <<>>
    /\ dvEffects = 0

NextIdentity ==
    \/ EncodeIds
    \/ DecodeIds
    \/ ResolveSources

SpecIdentity == InitIdentity /\ [][NextIdentity]_vars

\* HomePage and SearchBar as constructed (useState initial values).
InitSearch ==
    /\ locDocument = [hasPageInfo |-> FALSE, page_info |-> <<>>]
    /\ locQuery = <<"a">>
    /\ locResult = NoPage
    /\ locPc = "ready"
    /\ idPairs = [k \in 1..2 |-> [table |-> FORMS_MASTER, rowId |-> <<"1">>]]
    /\ idEncoded = None
    /\ idDecoded = None
    /\ idSource = None
    /\ sbQuery = <<>>
    /\ lastSubmit = "none"
    /\ query = <<>>
    /\ isLoading = FALSE
    /\ results = None
    /\ error = None
    /\ currentPage = 1
    /\ searchReqs = <<>>
    /\ isIndexing = FALSE
    /\ indexingStatus = None
    /\ indexError = None
    /\ stats = None
    /\ panelCalls = <<>>
    /\ lastClick = "none"
    /\ lastConfirm = None
    /\ posts = <<>>
    /\ postsIssued = 0
    /\ panelResps = <<>>
    /\ statsReqs = 0
    /\ store = <<>>
    /\ index = <<>>
    /\ runState = "Idle"
    /\ runPhase = "none"
    /\ runOwner = "panel"
    /\ runClear = FALSE
    /\ runDocs = <<>>
    /\ runNext = 1
    /\ batch = <<>>
    /\ runStats = ZeroStats
    /\ runFaults = FALSE
    /\ runCount = 0
    /\ lastOutcome = None
    /\ lastFlush = None
    /\ runFlushes = <<>>
    /\ searchHits = None
    /\ searchCount = 0
    /\ faults = 0
    /\ clearReqs = 0
    /\ clearsIssued = 0
    /\ clearing = 0
    /\ urlDocumentId = <<"A">>
    /\ urlDocumentName = <<>>
    /\ urlQuery = <<>>
    /\ urlPageNumber = NoPage
    /\ urlViewerType = "pdfjs"
    /\ urlBuilt = None
    /\ urlRequested = None
    /\ cardImpl = "part_004"
    /\ cardName = <<>>
    /\ foundOnPage = None
    /\ cardOpened = None
    /\ cardFormatted = NoFormatted
    /\ matchIn = None
    /\ fetchResult = [failed |-> TRUE, status |-> 0, body |-> NotJsonBody]
    /\ fetchOutcome = None
    /\ pnCurrentPage = 1
    /\ pnTotalPages = 1
    /\ pageNumbers = None
    /\ dvIsOpen = FALSE
    /\ dvDocumentId = <<>>
    /\ dvStatus = "idle"
    /\ dvErrorMsg = <<>>
    /\ dvContainer = NoContainer
    /\ dvTasks = <<>>
    /\ dvEffects = 0

NextSearch ==
    \/ TypeQuery
    \/ HandleClear
    \/ Submit
    \/ HandlePageChange
    \/ SearchResolves
    \/ SearchRejects

SpecSearch == InitSearch /\ [][NextSearch]_vars

\* IndexingPanel as constructed, the service idle and a curl client beside
\* the panel, over small source stores and each index an earlier build may
\* have left.
InitIndexing ==
    /\ locDocument = [hasPageInfo |-> FALSE, page_info |-> <<>>]
    /\ locQuery = <<"a">>
    /\ locResult = NoPage
    /\ locPc = "ready"
    /\ idPairs = [k \in 1..2 |-> [table |-> FORMS_MASTER, rowId |-> <<"1">>]]
    /\ idEncoded = None
    /\ idDecoded = None
    /\ idSource = None
    /\ sbQuery = <<>>
    /\ lastSubmit = "none"
    /\ query = <<>>
    /\ isLoading = FALSE
    /\ results = None
    /\ error = None
    /\ currentPage = 1
    /\ searchReqs = <<>>
    /\ isIndexing = FALSE
    /\ indexingStatus = None
    /\ indexError = None
    /\ stats = None
    /\ panelCalls = <<>>
    /\ lastClick = "none"
    /\ lastConfirm = None
    /\ posts = <<>>
    /\ postsIssued = 0
    /\ panelResps = <<>>
    /\ statsReqs = 0
    /\ store \in {<<>>, StoreE2E}
    /\ index \in InitialIndexes
    /\ runState = "Idle"
    /\ runPhase = "none"
    /\ runOwner = "panel"
    /\ runClear = FALSE
    /\ runDocs = <<>>
    /\ runNext = 1
    /\ batch = <<>>
    /\ runStats = ZeroStats
    /\ runFaults = FALSE
    /\ runCount = 0
    /\ lastOutcome = None
    /\ lastFlush = None
    /\ runFlushes = <<>>
    /\ searchHits = None
    /\ searchCount = 0
    /\ faults = 0
    /\ clearReqs = 0
    /\ clearsIssued = 0
    /\ clearing = 0
    /\ urlDocumentId = <<"A">>
    /\ urlDocumentName = <<>>
    /\ urlQuery = <<>>
    /\ urlPageNumber = NoPage
    /\ urlViewerType = "pdfjs"
    /\ urlBuilt = None
    /\ urlRequested = None
    /\ cardImpl = "part_004"
    /\ cardName = <<>>
    /\ foundOnPage = None
    /\ cardOpened = None
    /\ cardFormatted = NoFormatted
    /\ matchIn = None
    /\ fetchResult = [failed |-> TRUE, status |-> 0, body |-> NotJsonBody]
    /\ fetchOutcome = None
    /\ pnCurrentPage = 1
    /\ pnTotalPages = 1
    /\ pageNumbers = None
    /\ dvIsOpen = FALSE
    /\ dvDocumentId = <<>>
    /\ dvStatus = "idle"
    /\ dvErrorMsg = <<>>
    /\ dvContainer = NoContainer
    /\ dvTasks = <<>>
    /\ dvEffects = 0

NextIndexing ==
    \/ ClickUpdate
    \/ ClickRebuild
    \/ ClickStats
    \/ CurlPostIndex
    \/ ReceivePost
    \/ RunClear
    \/ RunList
    \/ RunDocument
    \/ RunFlushBegin
    \/ RunFlush
    \/ RunFinish
    \/ IndexSettles
    \/ StatsResolves
    \/ StatsRejects

SpecIndexing == InitIndexing /\ [][NextIndexing]_vars

\* IndexingPanel, the only client of the service, over a small store.
InitPanel ==
    /\ locDocument = [hasPageInfo |-> FALSE, page_info |-> <<>>]
    /\ locQuery = <<"a">>
    /\ locResult = NoPage
    /\ locPc = "ready"
    /\ idPairs = [k \in 1..2 |-> [table |-> FORMS_MASTER, rowId |-> <<"1">>]]
    /\ idEncoded = None
    /\ idDecoded = None
    /\ idSource = None
    /\ sbQuery = <<>>
    /\ lastSubmit = "none"
    /\ query = <<>>
    /\ isLoading = FALSE
    /\ results = None
    /\ error = None
    /\ currentPage = 1
    /\ searchReqs = <<>>
    /\ isIndexing = FALSE
    /\ indexingStatus = None
    /\ indexError = None
    /\ stats = None
    /\ panelCalls = <<>>
    /\ lastClick = "none"
    /\ lastConfirm = None
    /\ posts = <<>>
    /\ postsIssued = 0
    /\ panelResps = <<>>
    /\ statsReqs = 0
    /\ store \in PanelStores
    /\ index = <<>>
    /\ runState = "Idle"
    /\ runPhase = "none"
    /\ runOwner = "panel"
    /\ runClear = FALSE
    /\ runDocs = <<>>
    /\ runNext = 1
    /\ batch = <<>>
    /\ runStats = ZeroStats
    /\ runFaults = FALSE
    /\ runCount = 0
    /\ lastOutcome = None
    /\ lastFlush = None
    /\ runFlushes = <<>>
    /\ searchHits = None
    /\ searchCount = 0
    /\ faults = 0
    /\ clearReqs = 0
    /\ clearsIssued = 0
    /\ clearing = 0
    /\ urlDocumentId = <<"A">>
    /\ urlDocumentName = <<>>
    /\ urlQuery = <<>>
    /\ urlPageNumber = NoPage
    /\ urlViewerType = "pdfjs"
    /\ urlBuilt = None
    /\ urlRequested = None
    /\ cardImpl = "part_004"
    /\ cardName = <<>>
    /\ foundOnPage = None
    /\ cardOpened = None
    /\ cardFormatted = NoFormatted
    /\ matchIn = None
    /\ fetchResult = [failed |-> TRUE, status |-> 0, body |-> NotJsonBody]
    /\ fetchOutcome = None
    /\ pnCurrentPage = 1
    /\ pnTotalPages = 1
    /\ pageNumbers = None
    /\ dvIsOpen = FALSE
    /\ dvDocumentId = <<>>
    /\ dvStatus = "idle"
    /\ dvErrorMsg = <<>>
    /\ dvContainer = NoContainer
    /\ dvTasks = <<>>
    /\ dvEffects = 0

NextPanel ==
    \/ ClickUpdate
    \/ ClickRebuild
    \/ ClickStats
    \/ ReceivePost
    \/ RunClear
    \/ RunList
    \/ RunDocument
    \/ RunFlushBegin
    \/ RunFlush
    \/ RunFinish
    \/ IndexSettles
    \/ StatsResolves
    \/ StatsRejects

SpecPanel == InitPanel /\ [][NextPanel]_vars

\* The requests of the panel settle: the service takes each POST /index and
\* runs it to its reply, the reply reaches the panel, and the stats request
\* resolves or is rejected.
SpecPanelFair ==
    /\ SpecPanel
    /\ WF_vars(ReceivePost)
    /\ WF_vars(RunClear)
    /\ WF_vars(RunList)
    /\ WF_vars(RunDocument)
    /\ WF_vars(RunFlushBegin)
    /\ WF_vars(RunFlush)
    /\ WF_vars(RunFinish)
    /\ WF_vars(IndexSettles)
    /\ WF_vars((StatsResolves \/ StatsRejects) /\ ReturnToRun)

\* The service alone, with the clients that post to it with curl: indexing
\* runs and POST /index/clear, over each source store and each index an
\* earlier build may have left.
InitIndexOps ==
    /\ locDocument = [hasPageInfo |-> FALSE, page_info |-> <<>>]
    /\ locQuery = <<"a">>
    /\ locResult = NoPage
    /\ locPc = "ready"
    /\ idPairs = [k \in 1..2 |-> [table |-> FORMS_MASTER, rowId |-> <<"1">>]]
    /\ idEncoded = None
    /\ idDecoded = None
    /\ idSource = None
    /\ sbQuery = <<>>
    /\ lastSubmit = "none"
    /\ query = <<>>
    /\ isLoading = FALSE
    /\ results = None
    /\ error = None
    /\ currentPage = 1
    /\ searchReqs = <<>>
    /\ isIndexing = FALSE
    /\ indexingStatus = None
    /\ indexError = None
    /\ stats = None
    /\ panelCalls = <<>>
    /\ lastClick = "none"
    /\ lastConfirm = None
    /\ posts = <<>>
    /\ postsIssued = 0
    /\ panelResps = <<>>
    /\ statsReqs = 0
    /\ store \in Stores
    /\ index \in InitialIndexes
    /\ runState = "Idle"
    /\ runPhase = "none"
    /\ runOwner = "panel"
    /\ runClear = FALSE
    /\ runDocs = <<>>
    /\ runNext = 1
    /\ batch = <<>>
    /\ runStats = ZeroStats
    /\ runFaults = FALSE
    /\ runCount = 0
    /\ lastOutcome = None
    /\ lastFlush = None
    /\ runFlushes = <<>>
    /\ searchHits = None
    /\ searchCount = 0
    /\ faults = 0
    /\ clearReqs = 0
    /\ clearsIssued = 0
    /\ clearing = 0
    /\ urlDocumentId = <<"A">>
    /\ urlDocumentName = <<>>
    /\ urlQuery = <<>>
    /\ urlPageNumber = NoPage
    /\ urlViewerType = "pdfjs"
    /\ urlBuilt = None
    /\ urlRequested = None
    /\ cardImpl = "part_004"
    /\ cardName = <<>>
    /\ foundOnPage = None
    /\ cardOpened = None
    /\ cardFormatted = NoFormatted
    /\ matchIn = None
    /\ fetchResult = [failed |-> TRUE, status |-> 0, body |-> NotJsonBody]
    /\ fetchOutcome = None
    /\ pnCurrentPage = 1
    /\ pnTotalPages = 1
    /\ pageNumbers = None
    /\ dvIsOpen = FALSE
    /\ dvDocumentId = <<>>
    /\ dvStatus = "idle"
    /\ dvErrorMsg = <<>>
    /\ dvContainer = NoContainer
    /\ dvTasks = <<>>
    /\ dvEffects = 0

NextIndexOps ==
    \/ CurlPostIndex
    \/ ReceivePost
    \/ RunClear
    \/ RunList
    \/ RunDocument
    \/ RunFlushBegin
    \/ RunFlush
    \/ RunFinish
    \/ PostClear
    \/ ClearBegin
    \/ ClearEnd

SpecIndexOps == InitIndexOps /\ [][NextIndexOps]_vars

\* The service with the clients that post to /api/index and /api/search
\* with curl.
NextService ==
    \/ CurlPostIndex
    \/ ReceivePost
    \/ RunClear
    \/ RunList
    \/ RunDocument
    \/ RunFlushBegin
    \/ RunFlush
    \/ RunFinish
    \/ PostSearch

SpecService == InitIndexOps /\ [][NextService]_vars

\* The run is a loop in the request handler and the index service answers
\* its calls: each step of a run, and a clear() in progress, is eventually
\* taken.
SpecIndexOpsFair ==
    /\ SpecIndexOps
    /\ WF_vars(RunClear)
    /\ WF_vars(RunList)
    /\ WF_vars(RunDocument)
    /\ WF_vars(RunFlushBegin)
    /\ WF_vars(RunFlush)
    /\ WF_vars(RunFinish)
    /\ WF_vars(ClearEnd)

\* The service over the stores of the batching: a store that fills more than
\* one batch, one that fills less, one of documents without text, none.
InitBatching ==
    /\ locDocument = [hasPageInfo |-> FALSE, page_info |-> <<>>]
    /\ locQuery = <<"a">>
    /\ locResult = NoPage
    /\ locPc = "ready"
    /\ idPairs = [k \in 1..2 |-> [table |-> FORMS_MASTER, rowId |-> <<"1">>]]
    /\ idEncoded = None
    /\ idDecoded = None
    /\ idSource = None
    /\ sbQuery = <<>>
    /\ lastSubmit = "none"
    /\ query = <<>>
    /\ isLoading = FALSE
    /\ results = None
    /\ error = None
    /\ currentPage = 1
    /\ searchReqs = <<>>
    /\ isIndexing = FALSE
    /\ indexingStatus = None
    /\ indexError = None
    /\ stats = None
    /\ panelCalls = <<>>
    /\ lastClick = "none"
    /\ lastConfirm = None
    /\ posts = <<>>
    /\ postsIssued = 0
    /\ panelResps = <<>>
    /\ statsReqs = 0
    /\ store \in BatchStores
    /\ index \in InitialIndexes
    /\ runState = "Idle"
    /\ runPhase = "none"
    /\ runOwner = "panel"
    /\ runClear = FALSE
    /\ runDocs = <<>>
    /\ runNext = 1
    /\ batch = <<>>
    /\ runStats = ZeroStats
    /\ runFaults = FALSE
    /\ runCount = 0
    /\ lastOutcome = None
    /\ lastFlush = None
    /\ runFlushes = <<>>
    /\ searchHits = None
    /\ searchCount = 0
    /\ faults = 0
    /\ clearReqs = 0
    /\ clearsIssued = 0
    /\ clearing = 0
    /\ urlDocumentId = <<"A">>
    /\ urlDocumentName = <<>>
    /\ urlQuery = <<>>
    /\ urlPageNumber = NoPage
    /\ urlViewerType = "pdfjs"
    /\ urlBuilt = None
    /\ urlRequested = None
    /\ cardImpl = "part_004"
    /\ cardName = <<>>
    /\ foundOnPage = None
    /\ cardOpened = None
    /\ cardFormatted = NoFormatted
    /\ matchIn = None
    /\ fetchResult = [failed |-> TRUE, status |-> 0, body |-> NotJsonBody]
    /\ fetchOutcome = None
    /\ pnCurrentPage = 1
    /\ pnTotalPages = 1
    /\ pageNumbers = None
    /\ dvIsOpen = FALSE
    /\ dvDocumentId = <<>>
    /\ dvStatus = "idle"
    /\ dvErrorMsg = <<>>
    /\ dvContainer = NoContainer
    /\ dvTasks = <<>>
    /\ dvEffects = 0

SpecBatching == InitBatching /\ [][NextIndexOps]_vars

\* The arguments of the URL builders: any document id, the name of the
\* hit, the query and page of the card, the viewer type.
InitUrl ==
    /\ locDocument = [hasPageInfo |-> FALSE, page_info |-> <<>>]
    /\ locQuery = <<"a">>
    /\ locResult = NoPage
    /\ locPc = "ready"
    /\ idPairs = [k \in 1..2 |-> [table |-> FORMS_MASTER, rowId |-> <<"1">>]]
    /\ idEncoded = None
    /\ idDecoded = None
    /\ idSource = None
    /\ sbQuery = <<>>
    /\ lastSubmit = "none"
    /\ query = <<>>
    /\ isLoading = FALSE
    /\ results = None
    /\ error = None
    /\ currentPage = 1
    /\ searchReqs = <<>>
    /\ isIndexing = FALSE
    /\ indexingStatus = None
    /\ indexError = None
    /\ stats = None
    /\ panelCalls = <<>>
    /\ lastClick = "none"
    /\ lastConfirm = None
    /\ posts = <<>>
    /\ postsIssued = 0
    /\ panelResps = <<>>
    /\ statsReqs = 0
    /\ store = <<>>
    /\ index = <<>>
    /\ runState = "Idle"
    /\ runPhase = "none"
    /\ runOwner = "panel"
    /\ runClear = FALSE
    /\ runDocs = <<>>
    /\ runNext = 1
    /\ batch = <<>>
    /\ runStats = ZeroStats
    /\ runFaults = FALSE
    /\ runCount = 0
    /\ lastOutcome = None
    /\ lastFlush = None
    /\ runFlushes = <<>>
    /\ searchHits = None
    /\ searchCount = 0
    /\ faults = 0
    /\ clearReqs = 0
    /\ clearsIssued = 0
    /\ clearing = 0
    /\ urlDocumentId \in UrlIds
    /\ urlDocumentName \in UrlNames
    /\ urlQuery \in UrlQueries
    /\ urlPageNumber \in UrlPages
    /\ urlViewerType \in ViewerTypes
    /\ urlBuilt = None
    /\ urlRequested = None
    /\ cardImpl = "part_004"
    /\ cardName = <<>>
    /\ foundOnPage = None
    /\ cardOpened = None
    /\ cardFormatted = NoFormatted
    /\ matchIn = None
    /\ fetchResult = [failed |-> TRUE, status |-> 0, body |-> NotJsonBody]
    /\ fetchOutcome = None
    /\ pnCurrentPage = 1
    /\ pnTotalPages = 1
    /\ pageNumbers = None
    /\ dvIsOpen = FALSE
    /\ dvDocumentId = <<>>
    /\ dvStatus = "idle"
    /\ dvErrorMsg = <<>>
    /\ dvContainer = NoContainer
    /\ dvTasks = <<>>
    /\ dvEffects = 0

NextUrl ==
    \/ CallGetDocumentViewUrl
    \/ CallGetDocumentProxyUrl
    \/ CallGetDocumentMetadata
    \/ ServiceReceives

SpecUrl == InitUrl /\ [][NextUrl]_vars

\* A hit and the query it was found with, on a card of either version.
InitCard ==
    /\ locDocument \in CardDocuments
    /\ locQuery \in LocQueries
    /\ locResult = NoPage
    /\ locPc = "ready"
    /\ idPairs = [k \in 1..2 |-> [table |-> FORMS_MASTER, rowId |-> <<"1">>]]
    /\ idEncoded = None
    /\ idDecoded = None
    /\ idSource = None
    /\ sbQuery = <<>>
    /\ lastSubmit = "none"
    /\ query = <<>>
    /\ isLoading = FALSE
    /\ results = None
    /\ error = None
    /\ currentPage = 1
    /\ searchReqs = <<>>
    /\ isIndexing = FALSE
    /\ indexingStatus = None
    /\ indexError = None
    /\ stats = None
    /\ panelCalls = <<>>
    /\ lastClick = "none"
    /\ lastConfirm = None
    /\ posts = <<>>
    /\ postsIssued = 0
    /\ panelResps = <<>>
    /\ statsReqs = 0
    /\ store = <<>>
    /\ index = <<>>
    /\ runState = "Idle"
    /\ runPhase = "none"
    /\ runOwner = "panel"
    /\ runClear = FALSE
    /\ runDocs = <<>>
    /\ runNext = 1
    /\ batch = <<>>
    /\ runStats = ZeroStats
    /\ runFaults = FALSE
    /\ runCount = 0
    /\ lastOutcome = None
    /\ lastFlush = None
    /\ runFlushes = <<>>
    /\ searchHits = None
    /\ searchCount = 0
    /\ faults = 0
    /\ clearReqs = 0
    /\ clearsIssued = 0
    /\ clearing = 0
    /\ urlDocumentId = <<"A">>
    /\ urlDocumentName = <<>>
    /\ urlQuery = <<>>
    /\ urlPageNumber = NoPage
    /\ urlViewerType = "pdfjs"
    /\ urlBuilt = None
    /\ urlRequested = None
    /\ cardImpl \in CardImpls
    /\ cardName \in CardNames
    /\ foundOnPage = None
    /\ cardOpened = None
    /\ cardFormatted = NoFormatted
    /\ matchIn = None
    /\ fetchResult = [failed |-> TRUE, status |-> 0, body |-> NotJsonBody]
    /\ fetchOutcome = None
    /\ pnCurrentPage = 1
    /\ pnTotalPages = 1
    /\ pageNumbers = None
    /\ dvIsOpen = FALSE
    /\ dvDocumentId = <<>>
    /\ dvStatus = "idle"
    /\ dvErrorMsg = <<>>
    /\ dvContainer = NoContainer
    /\ dvTasks = <<>>
    /\ dvEffects = 0

NextCard ==
    \/ RenderCard
    \/ ClickView

SpecCard == InitCard /\ [][NextCard]_vars

\* The card of part_004 over what a hit's _formatted may hold.
InitMatchIn ==
    /\ locDocument \in CardDocuments
    /\ locQuery \in MatchInQueries
    /\ locResult = NoPage
    /\ locPc = "ready"
    /\ idPairs = [k \in 1..2 |-> [table |-> FORMS_MASTER, rowId |-> <<"1">>]]
    /\ idEncoded = None
    /\ idDecoded = None
    /\ idSource = None
    /\ sbQuery = <<>>
    /\ lastSubmit = "none"
    /\ query = <<>>
    /\ isLoading = FALSE
    /\ results = None
    /\ error = None
    /\ currentPage = 1
    /\ searchReqs = <<>>
    /\ isIndexing = FALSE
    /\ indexingStatus = None
    /\ indexError = None
    /\ stats = None
    /\ panelCalls = <<>>
    /\ lastClick = "none"
    /\ lastConfirm = None
    /\ posts = <<>>
    /\ postsIssued = 0
    /\ panelResps = <<>>
    /\ statsReqs = 0
    /\ store = <<>>
    /\ index = <<>>
    /\ runState = "Idle"
    /\ runPhase = "none"
    /\ runOwner = "panel"
    /\ runClear = FALSE
    /\ runDocs = <<>>
    /\ runNext = 1
    /\ batch = <<>>
    /\ runStats = ZeroStats
    /\ runFaults = FALSE
    /\ runCount = 0
    /\ lastOutcome = None
    /\ lastFlush = None
    /\ runFlushes = <<>>
    /\ searchHits = None
    /\ searchCount = 0
    /\ faults = 0
    /\ clearReqs = 0
    /\ clearsIssued = 0
    /\ clearing = 0
    /\ urlDocumentId = <<"A">>
    /\ urlDocumentName = <<>>
    /\ urlQuery = <<>>
    /\ urlPageNumber = NoPage
    /\ urlViewerType = "pdfjs"
    /\ urlBuilt = None
    /\ urlRequested = None
    /\ cardImpl = "part_004"
    /\ cardName \in MatchInNames
    /\ foundOnPage = None
    /\ cardOpened = None
    /\ cardFormatted \in Formatteds
    /\ matchIn = None
    /\ fetchResult = [failed |-> TRUE, status |-> 0, body |-> NotJsonBody]
    /\ fetchOutcome = None
    /\ pnCurrentPage = 1
    /\ pnTotalPages = 1
    /\ pageNumbers = None
    /\ dvIsOpen = FALSE
    /\ dvDocumentId = <<>>
    /\ dvStatus = "idle"
    /\ dvErrorMsg = <<>>
    /\ dvContainer = NoContainer
    /\ dvTasks = <<>>
    /\ dvEffects = 0

SpecMatchIn == InitMatchIn /\ [][NextCard]_vars

\* A call of fetchAPI, over what the network and the service may answer.
InitFetch ==
    /\ locDocument = [hasPageInfo |-> FALSE, page_info |-> <<>>]
    /\ locQuery = <<"a">>
    /\ locResult = NoPage
    /\ locPc = "ready"
    /\ idPairs = [k \in 1..2 |-> [table |-> FORMS_MASTER, rowId |-> <<"1">>]]
    /\ idEncoded = None
    /\ idDecoded = None
    /\ idSource = None
    /\ sbQuery = <<>>
    /\ lastSubmit = "none"
    /\ query = <<>>
    /\ isLoading = FALSE
    /\ results = None
    /\ error = None
    /\ currentPage = 1
    /\ searchReqs = <<>>
    /\ isIndexing = FALSE
    /\ indexingStatus = None
    /\ indexError = None
    /\ stats = None
    /\ panelCalls = <<>>
    /\ lastClick = "none"
    /\ lastConfirm = None
    /\ posts = <<>>
    /\ postsIssued = 0
    /\ panelResps = <<>>
    /\ statsReqs = 0
    /\ store = <<>>
    /\ index = <<>>
    /\ runState = "Idle"
    /\ runPhase = "none"
    /\ runOwner = "panel"
    /\ runClear = FALSE
    /\ runDocs = <<>>
    /\ runNext = 1
    /\ batch = <<>>
    /\ runStats = ZeroStats
    /\ runFaults = FALSE
    /\ runCount = 0
    /\ lastOutcome = None
    /\ lastFlush = None
    /\ runFlushes = <<>>
    /\ searchHits = None
    /\ searchCount = 0
    /\ faults = 0
    /\ clearReqs = 0
    /\ clearsIssued = 0
    /\ clearing = 0
    /\ urlDocumentId = <<"A">>
    /\ urlDocumentName = <<>>
    /\ urlQuery = <<>>
    /\ urlPageNumber = NoPage
    /\ urlViewerType = "pdfjs"
    /\ urlBuilt = None
    /\ urlRequested = None
    /\ cardImpl = "part_004"
    /\ cardName = <<>>
    /\ foundOnPage = None
    /\ cardOpened = None
    /\ cardFormatted = NoFormatted
    /\ matchIn = None
    /\ fetchResult \in FetchResults
    /\ fetchOutcome = None
    /\ pnCurrentPage = 1
    /\ pnTotalPages = 1
    /\ pageNumbers = None
    /\ dvIsOpen = FALSE
    /\ dvDocumentId = <<>>
    /\ dvStatus = "idle"
    /\ dvErrorMsg = <<>>
    /\ dvContainer = NoContainer
    /\ dvTasks = <<>>
    /\ dvEffects = 0

NextFetch == CallFetchAPI

SpecFetch == InitFetch /\ [][NextFetch]_vars

(***************************************************************************)
(* CLAIMS                                                                  *)
(***************************************************************************)

\* Pagination over every page of every number of pages.
InitPages ==
    /\ locDocument = [hasPageInfo |-> FALSE, page_info |-> <<>>]
    /\ locQuery = <<"a">>
    /\ locResult = NoPage
    /\ locPc = "ready"
    /\ idPairs = [k \in 1..2 |-> [table |-> FORMS_MASTER, rowId |-> <<"1">>]]
    /\ idEncoded = None
    /\ idDecoded = None
    /\ idSource = None
    /\ sbQuery = <<>>
    /\ lastSubmit = "none"
    /\ query = <<>>
    /\ isLoading = FALSE
    /\ results = None
    /\ error = None
    /\ currentPage = 1
    /\ searchReqs = <<>>
    /\ isIndexing = FALSE
    /\ indexingStatus = None
    /\ indexError = None
    /\ stats = None
    /\ panelCalls = <<>>
    /\ lastClick = "none"
    /\ lastConfirm = None
    /\ posts = <<>>
    /\ postsIssued = 0
    /\ panelResps = <<>>
    /\ statsReqs = 0
    /\ store = <<>>
    /\ index = <<>>
    /\ runState = "Idle"
    /\ runPhase = "none"
    /\ runOwner = "panel"
    /\ runClear = FALSE
    /\ runDocs = <<>>
    /\ runNext = 1
    /\ batch = <<>>
    /\ runStats = ZeroStats
    /\ runFaults = FALSE
    /\ runCount = 0
    /\ lastOutcome = None
    /\ lastFlush = None
    /\ runFlushes = <<>>
    /\ searchHits = None
    /\ searchCount = 0
    /\ faults = 0
    /\ clearReqs = 0
    /\ clearsIssued = 0
    /\ clearing = 0
    /\ urlDocumentId = <<"A">>
    /\ urlDocumentName = <<>>
    /\ urlQuery = <<>>
    /\ urlPageNumber = NoPage
    /\ urlViewerType = "pdfjs"
    /\ urlBuilt = None
    /\ urlRequested = None
    /\ cardImpl = "part_004"
    /\ cardName = <<>>
    /\ foundOnPage = None
    /\ cardOpened = None
    /\ cardFormatted = NoFormatted
    /\ matchIn = None
    /\ fetchResult = [failed |-> TRUE, status |-> 0, body |-> NotJsonBody]
    /\ fetchOutcome = None
    /\ pnTotalPages \in 1..MaxTotalPages
    /\ pnCurrentPage \in 1..pnTotalPages
    /\ pageNumbers = None
    /\ dvIsOpen = FALSE
    /\ dvDocumentId = <<>>
    /\ dvStatus = "idle"
    /\ dvErrorMsg = <<>>
    /\ dvContainer = NoContainer
    /\ dvTasks = <<>>
    /\ dvEffects = 0

NextPages ==
    \/ CallGetPageNumbers

SpecPages == InitPages /\ [][NextPages]_vars

\* DocViewerModal as constructed: closed, nothing rendered.
InitViewer ==
    /\ locDocument = [hasPageInfo |-> FALSE, page_info |-> <<>>]
    /\ locQuery = <<"a">>
    /\ locResult = NoPage
    /\ locPc = "ready"
    /\ idPairs = [k \in 1..2 |-> [table |-> FORMS_MASTER, rowId |-> <<"1">>]]
    /\ idEncoded = None
    /\ idDecoded = None
    /\ idSource = None
    /\ sbQuery = <<>>
    /\ lastSubmit = "none"
    /\ query = <<>>
    /\ isLoading = FALSE
    /\ results = None
    /\ error = None
    /\ currentPage = 1
    /\ searchReqs = <<>>
    /\ isIndexing = FALSE
    /\ indexingStatus = None
    /\ indexError = None
    /\ stats = None
    /\ panelCalls = <<>>
    /\ lastClick = "none"
    /\ lastConfirm = None
    /\ posts = <<>>
    /\ postsIssued = 0
    /\ panelResps = <<>>
    /\ statsReqs = 0
    /\ store = <<>>
    /\ index = <<>>
    /\ runState = "Idle"
    /\ runPhase = "none"
    /\ runOwner = "panel"
    /\ runClear = FALSE
    /\ runDocs = <<>>
    /\ runNext = 1
    /\ batch = <<>>
    /\ runStats = ZeroStats
    /\ runFaults = FALSE
    /\ runCount = 0
    /\ lastOutcome = None
    /\ lastFlush = None
    /\ runFlushes = <<>>
    /\ searchHits = None
    /\ searchCount = 0
    /\ faults = 0
    /\ clearReqs = 0
    /\ clearsIssued = 0
    /\ clearing = 0
    /\ urlDocumentId = <<"A">>
    /\ urlDocumentName = <<>>
    /\ urlQuery = <<>>
    /\ urlPageNumber = NoPage
    /\ urlViewerType = "pdfjs"
    /\ urlBuilt = None
    /\ urlRequested = None
    /\ cardImpl = "part_004"
    /\ cardName = <<>>
    /\ foundOnPage = None
    /\ cardOpened = None
    /\ cardFormatted = NoFormatted
    /\ matchIn = None
    /\ fetchResult = [failed |-> TRUE, status |-> 0, body |-> NotJsonBody]
    /\ fetchOutcome = None
    /\ pnCurrentPage = 1
    /\ pnTotalPages = 1
    /\ pageNumbers = None
    /\ dvIsOpen = FALSE
    /\ dvDocumentId = <<>>
    /\ dvStatus = "idle"
    /\ dvErrorMsg = <<>>
    /\ dvContainer = NoContainer
    /\ dvTasks = <<>>
    /\ dvEffects = 0

NextViewer ==
    \/ SetProps
    \/ TaskFetched
    \/ TaskFails
    \/ TaskRenderCall
    \/ TaskRenderWrite
    \/ TaskDone

SpecViewer == InitViewer /\ [][NextViewer]_vars
\* Case-insensitive containment, character by character.
ContainsCI(text, q) ==
    \E i \in 0..(Len(text) - Len(q)) :
        \A k \in 1..Len(q) : ToLowerChar(text[i + k]) = ToLowerChar(q[k])

\* The entries of the hit's page_info whose text contains the query.
MatchingEntries ==
    IF locDocument.hasPageInfo
    THEN {i \in 1..Len(locDocument.page_info) :
             ContainsCI(locDocument.page_info[i].text, locQuery)}
    ELSE {}

\* C3: whenever some page contains the query (case-insensitively),
\* findPageNumber returns the page of the first matching entry, and no
\* matching page has a lower page number.
C3_FirstMatchingPage ==
    (locPc = "returned" /\ MatchingEntries # {}) =>
        /\ locResult = locDocument.page_info[Min(MatchingEntries)].page
        /\ \A i \in MatchingEntries : locResult <= locDocument.page_info[i].page

\* Pages [1: "a", 2: "Ba"] and the query "A": two pages match, only by
\* folding case, and page 1 is returned.
C3_Witness ==
    /\ locPc = "returned"
    /\ locDocument.hasPageInfo
    /\ locDocument.page_info = <<[page |-> 1, text |-> <<"a">>],
                                 [page |-> 2, text |-> <<"B", "a">>]>>
    /\ locQuery = <<"A">>
    /\ MatchingEntries = {1, 2}
    /\ locResult = 1

\* C4: findPageNumber returns null exactly when page_info is missing or
\* empty or no page's text contains the query; in every other case it
\* returns the page number of one of the entries.
C4_AbsentIffNoMatch ==
    locPc = "returned" =>
        /\ (locResult = NoPage) <=> (MatchingEntries = {})
        /\ (locResult # NoPage) =>
               \E i \in MatchingEntries : locResult = locDocument.page_info[i].page

\* A hit with two pages of text, none containing the query: null.
C4_Witness ==
    /\ locPc = "returned"
    /\ locDocument.hasPageInfo
    /\ Len(locDocument.page_info) = 2
    /\ \A i \in 1..2 : locDocument.page_info[i].text # <<>>
    /\ MatchingEntries = {}
    /\ locResult = NoPage

\* C5: for every configured table and every row id that encode accepts,
\* decoding the composite id gives back the table and the row id.
C5_RoundTrip ==
    idDecoded # None =>
        \A k \in 1..2 :
            /\ idDecoded[k].ok
            /\ idDecoded[k].table = idPairs[k].table
            /\ idDecoded[k].rowId = idPairs[k].rowId

\* VESSEL_CERTIFICATES:12 has been encoded and decoded.
C5_Witness ==
    /\ idDecoded # None
    /\ idPairs[1] = [table |-> VESSEL_CERTIFICATES, rowId |-> <<"1", "2">>]
    /\ idEncoded[1].id = VESSEL_CERTIFICATES \o <<":", "1", "2">>
    /\ idDecoded[1].ok

\* C6: two different (table, row id) pairs never get the same composite id,
\* and an id identifies exactly one source table: exactly one configured
\* table name starts it, getSource resolves it, and two ids resolve to the
\* same source only when they come from the same table.
C6_UniqueIds ==
    (idEncoded # None /\ \A k \in 1..2 : idEncoded[k].ok) =>
        /\ (idPairs[1] # idPairs[2]) => (idEncoded[1].id # idEncoded[2].id)
        /\ \A k \in 1..2 :
              {t \in ConfiguredTables : startsWith(idEncoded[k].id, t)}
                  = {idPairs[k].table}
        /\ idSource # None =>
              /\ \A k \in 1..2 : idSource[k] # None
              /\ (idSource[1] = idSource[2]) <=> (idPairs[1].table = idPairs[2].table)

\* Row 1 of FORMS_MASTER and row 1 of VESSEL_CERTIFICATES: same row id,
\* different tables, both resolved.
C6_Witness ==
    /\ idSource # None
    /\ idPairs[1] = [table |-> FORMS_MASTER, rowId |-> <<"1">>]
    /\ idPairs[2] = [table |-> VESSEL_CERTIFICATES, rowId |-> <<"1">>]
    /\ idEncoded[1].id # idEncoded[2].id
    /\ idSource[1] # idSource[2]


\* ---- indexing runs
Accounted(st) == st.total = st.indexed + st.failed + st.skipped

\* The POST /index of the panel that are under way: sent and not yet
\* received, being run, or answered and not yet seen by the panel.
PanelPostsUnderWay ==
    Cardinality({i \in 1..Len(posts) : posts[i].from = "panel"})
    + (IF runState = "Running" /\ runOwner = "panel" THEN 1 ELSE 0)
    + Len(panelResps)

indexVarsButClick ==
    <<isIndexing, indexingStatus, indexError, stats, panelCalls, posts, postsIssued,
      panelResps, statsReqs, store, index, runVars, searchHits, searchCount, faults,
      clearVars>>

\* C1: at most one indexing run is active at any time.  The panel has at most
\* one handleIndexDocuments call and at most one POST /index under way, a
\* click while isIndexing sends nothing; the service starts a run only when
\* none is Running, and a POST /index received while one is Running is
\* answered "busy" in that same step, changes nothing of the run, and is gone
\* from the requests: it is not kept to run later.
C1_OneRunAtATime ==
    /\ [](/\ Len(panelCalls) <= 1
          /\ PanelPostsUnderWay <= 1
          /\ (panelCalls # <<>>) => isIndexing)
    /\ [][/\ (runCount' # runCount) => (runState # "Running" /\ runCount' = runCount + 1)
          /\ (runState = "Running" /\ Len(posts') < Len(posts)) =>
                /\ UNCHANGED <<runVars, index>>
                /\ Len(posts') = Len(posts) - 1
                /\ \/ /\ Len(panelResps') = Len(panelResps) + 1
                      /\ panelResps'[Len(panelResps')].error = "busy"
                      /\ ~panelResps'[Len(panelResps')].ok
                   \/ /\ panelResps' = panelResps
                      /\ \E i \in 1..Len(posts) :
                            posts[i].from = "curl" /\ posts' = RemoveAt(posts, i)
          /\ (lastClick' = "ignored" /\ lastClick # "ignored") => UNCHANGED indexVarsButClick]_vars

\* A run asked for by another client is Running, the panel's POST /index was
\* answered "busy", and a further click on the busy panel was ignored.
C1_Witness ==
    /\ runState = "Running"
    /\ runOwner = "curl"
    /\ runCount = 1
    /\ posts = <<>>
    /\ Len(panelResps) = 1
    /\ panelResps[1].error = "busy"
    /\ isIndexing
    /\ lastClick = "ignored"

\* C2: the stats of every completed run, as held by the service, as sent to
\* the panel and as shown by it, satisfy total = indexed + failed + skipped;
\* during the run every document handled so far was counted exactly once.
C2_RunAccounting ==
    /\ runState = "Completed" => Accounted(runStats)
    /\ \A i \in 1..Len(panelResps) : panelResps[i].success => Accounted(panelResps[i].stats)
    /\ (indexingStatus # None /\ indexingStatus[1].success) => Accounted(indexingStatus[1].stats)
    /\ (runState \in {"Running", "Completed"} /\ runPhase \in {"docs", "flush", "flushing", "final", "none"}) =>
          /\ runStats.total = Len(runDocs)
          /\ runStats.indexed + runStats.failed + runStats.skipped = runNext - 1

\* The run the panel asked for has completed over a fetch failure and an
\* unsupported format, and the panel shows its stats.
C2_Witness ==
    /\ runState = "Completed"
    /\ runOwner = "panel"
    /\ runStats = [total |-> 2, indexed |-> 0, failed |-> 1, skipped |-> 1]
    /\ indexingStatus = Some([success |-> TRUE, stats |-> runStats])

NoDuplicateIds(idx) ==
    \A i, j \in 1..Len(idx) : idx[i].id = idx[j].id => i = j

\* C7: flushing a batch whose records are all in the index already leaves
\* the document count unchanged, and the index never holds two records of
\* one id.
C7_UpsertIdempotent ==
    [][/\ (/\ runState = "Running"
           /\ runPhase \in {"flushing", "final"}
           /\ batch # <<>>
           /\ \A i \in 1..Len(batch) : \E j \in 1..Len(index) : index[j] = batch[i])
          => Len(index') = Len(index)
       /\ NoDuplicateIds(index) => NoDuplicateIds(index')]_vars

\* The second run of an index update without clearing has flushed, with
\* success, a batch of records that were all in the index.
C7_Witness ==
    /\ runCount = 2
    /\ ~runClear
    /\ runState = "Completed"
    /\ lastFlush # None
    /\ lastFlush[1].ok
    /\ lastFlush[1].known
    /\ lastFlush[1].size = 2
    /\ Len(index) = lastFlush[1].before

Unsupported(doc) == Extension(doc.name) \notin SupportedExtensions

\* C8: handling a fetched document whose extension has no extractor yields
\* Unsupported, adds one to skipped and nothing to failed or indexed, puts
\* nothing in the batch, and leaves the run Running, at the next document.
C8_UnsupportedSkipped ==
    [][(/\ runState = "Running"
        /\ runPhase = "docs"
        /\ runNext' = runNext + 1
        /\ Unsupported(runDocs[runNext])
        /\ lastOutcome'[1].kind # "FetchFailed")
       => /\ lastOutcome'[1].kind = "Unsupported"
          /\ runStats' = [runStats EXCEPT !.skipped = @ + 1]
          /\ batch' = batch
          /\ runState' = "Running"
          /\ runFaults' = runFaults
          /\ runPhase' = IF runNext = Len(runDocs) THEN "final" ELSE "docs"]_vars

\* The .zip in the middle of the store was skipped and the run went on to
\* index the document after it.
C8_Witness ==
    /\ runState = "Completed"
    /\ runDocs = StoreMixed
    /\ ~runFaults
    /\ runStats = [total |-> 3, indexed |-> 2, failed |-> 0, skipped |-> 1]
    /\ lastOutcome = Some([name |-> D_Invoice.name, kind |-> "Extracted"])

\* The end-to-end scenario has run: the two documents, clear_existing, no
\* fetch or extraction failure, the run Completed.
E2ECompleted ==
    /\ runState = "Completed"
    /\ runDocs = StoreE2E
    /\ runClear
    /\ ~runFaults

\* C9: the end-to-end run reports {total 2, indexed 1, failed 0, skipped 1},
\* and a search for "invoice" made after it returns exactly one hit,
\* FORMS_MASTER:1.
C9_EndToEnd ==
    /\ [](E2ECompleted =>
             runStats = [total |-> 2, indexed |-> 1, failed |-> 0, skipped |-> 1])
    /\ [][(E2ECompleted /\ searchCount' = searchCount + 1) =>
             searchHits' = Some([query |-> "invoice",
                                 hits |-> <<encode(FORMS_MASTER, <<"1">>).id>>])]_vars

\* The search after the end-to-end run found FORMS_MASTER:1 alone.
C9_Witness ==
    /\ E2ECompleted
    /\ runCount = 1
    /\ searchHits = Some([query |-> "invoice",
                          hits |-> <<encode(FORMS_MASTER, <<"1">>).id>>])
    /\ index = <<IndexRecord(D_Invoice, D_Invoice.blob)>>

\* C10: an empty or whitespace-only input is never searched: handleSubmit
\* hands onSearch only a non-empty trimmed string, so every POST /search in
\* flight (a first search or a page change) carries a non-empty, trimmed
\* query, and so does HomePage's query once it is set.
C10_NoEmptyQuerySent ==
    /\ \A i \in 1..Len(searchReqs) :
          /\ searchReqs[i].query # <<>>
          /\ trim(searchReqs[i].query) = searchReqs[i].query
    /\ (lastSubmit = "sent" \/ searchReqs # <<>>) =>
          (query # <<>> /\ trim(query) = query)
    /\ (lastSubmit = "rejected" /\ ~isLoading) =>
          \/ trim(sbQuery) = <<>>
          \/ searchReqs = <<>>

\* The user typed a blank, submitted, and nothing was sent.
C10_Witness ==
    /\ sbQuery = <<" ">>
    /\ lastSubmit = "rejected"
    /\ searchReqs = <<>>
    /\ ~isLoading
    /\ query = <<>>

\* ---- the reply to an aborted run
\* The panel's handleIndexDocuments call for the run it asked for has settled.
PanelCallSettled ==
    /\ runOwner = "panel"
    /\ panelCalls = <<>>
    /\ panelResps = <<>>
    /\ ~isIndexing

\* C11: when the run the panel asked for was Aborted and the panel's call has
\* settled, the panel holds the stats of the aborted run.
C11_AbortStatsReported ==
    (runState = "Aborted" /\ PanelCallSettled) =>
        /\ indexingStatus # None
        /\ indexingStatus[1].stats = runStats


\* ---- document URLs
\* C13: whichever builder made the URL, and whichever branch of
\* getDocumentViewUrl, the id the service gets by percent-decoding the path
\* segment after /document/ of the request is the document id the URL was
\* built for.
C13_UrlCarriesId ==
    urlRequested # None =>
        /\ urlRequested[1].ok
        /\ urlRequested[1].value = urlDocumentId

\* The PDF.js viewer URL of an id with a colon and a slash, with page and
\* search fragment, was fetched and decoded.
C13_Witness ==
    /\ urlDocumentId = <<":", "/">>
    /\ urlBuilt # None
    /\ urlBuilt[1].by = "getDocumentViewUrl"
    /\ urlDocumentName = <<"a", ".", "p", "d", "f">>
    /\ urlViewerType = "pdfjs"
    /\ urlQuery # <<>>
    /\ urlPageNumber = 2
    /\ urlRequested = Some([ok |-> TRUE, value |-> <<":", "/">>])

\* ---- the response window
\* C14: every POST /search of HomePage in flight has limit 10 and the offset
\* (currentPage - 1) * 10 of the page being shown; a search that HomePage
\* starts for a new query, or from the SearchBar, is for page 1 with offset
\* 0; searchDocuments called with the query alone asks for limit 10, offset 0.
C14_LimitOffsetWindow ==
    /\ [](\A i \in 1..Len(searchReqs) :
             /\ searchReqs[i].limit = PER_PAGE
             /\ searchReqs[i].offset = (currentPage - 1) * PER_PAGE
             /\ searchReqs[i].query = query)
    /\ [][(query' # query \/ (Len(searchReqs') > Len(searchReqs) /\ ~PaginationShown)) =>
             /\ currentPage' = 1
             /\ searchReqs' # <<>>
             /\ searchReqs'[Len(searchReqs')] =
                   [query |-> query', limit |-> 10, offset |-> 0]]_vars
    /\ [](\A q \in InputStrings :
             searchDocuments(q, Undefined, Undefined) = [query |-> q, limit |-> 10, offset |-> 0])

\* The request of a change to page 3 is in flight.
C14_Witness ==
    /\ currentPage = 3
    /\ searchReqs = <<[query |-> query, limit |-> 10, offset |-> 20]>>
    /\ query # <<>>

\* ---- the page of a hit
HasPageFragment(url) == IndexOf(url, <<"p", "a", "g", "e", "=">>) # 0

\* C15: for a hit whose filename extension is not pdf, foundOnPage is absent,
\* handleView hands no page to getDocumentViewUrl and the URL it opens has
\* no page, whatever page_info holds.
C15_PageOnlyForPdf ==
    Extension(cardName) # <<"p", "d", "f">> =>
        /\ foundOnPage # None => foundOnPage[1] = NoPage
        /\ cardOpened # None =>
              /\ cardOpened[1].pageNumber = NoPage
              /\ ~HasPageFragment(cardOpened[1].url)

\* A text file whose page_info holds the query was rendered and opened
\* without a page.
C15_Witness ==
    /\ cardName = <<"d", ".", "t", "x", "t">>
    /\ findPageNumber(locDocument, locQuery) = 1
    /\ foundOnPage = Some(NoPage)
    /\ cardOpened # None
    /\ cardOpened[1].pageNumber = NoPage

\* ---- API failures
\* C16: fetchAPI resolves, with the body, only when the response is ok; for
\* a response that is not ok it rejects with the body's error field as the
\* message when the body has one, and with 'API error: <status>' when it has
\* none.
C16_StructuredError ==
    (fetchOutcome # None /\ ~fetchResult.failed) =>
        LET out == fetchOutcome[1]
        IN  /\ out.settled = "resolved" => (ResponseOk(fetchResult) /\ out.data = fetchResult.body.data)
            /\ ~ResponseOk(fetchResult) =>
                  /\ out.settled = "rejected"
                  /\ out.message = IF fetchResult.body.hasError /\ fetchResult.body.error # ""
                                   THEN <<fetchResult.body.error>>
                                   ELSE <<"API error: ", fetchResult.status>>

\* ---- per-document failures
\* C17: a run is Aborted only by a failed flush; every run that started comes
\* to an end, and when no flush failed it ends Completed, with every listed
\* document visited and counted; the step that handles a document whose fetch
\* or extraction fails leaves the run Running, at the next document.
C17_NoDocumentAbortsRun ==
    /\ [](runState = "Aborted" => (lastFlush # None /\ ~lastFlush[1].ok))
    /\ [](runState = "Completed" =>
             /\ runNext = Len(runDocs) + 1
             /\ runStats.indexed + runStats.failed + runStats.skipped = Len(runDocs))
    /\ [][(runState = "Running" /\ runPhase = "docs" /\ runNext' = runNext + 1) =>
             runState' = "Running"]_vars
    /\ (runState = "Running") ~> (runState \in {"Completed", "Aborted"})

\* The first document of the store failed, and the run went on to index the
\* last one and Completed.
C17_Witness ==
    /\ runState = "Completed"
    /\ runDocs = StoreMixed
    /\ runFaults
    /\ runStats = [total |-> 3, indexed |-> 1, failed |-> 1, skipped |-> 1]
    /\ lastOutcome = Some([name |-> D_Invoice.name, kind |-> "Extracted"])
    /\ \E i \in 1..Len(index) : index[i] = IndexRecord(D_Invoice, D_Invoice.blob)

\* ---- outcomes and counters
\* The step handles the next document of the run.
DocumentStep == runState = "Running" /\ runPhase = "docs" /\ runNext' = runNext + 1

\* C18: a fetch failure and an extraction that ends in Failed each add one to
\* failed and nothing to skipped; an Unsupported format adds one to skipped
\* and nothing to failed.
C18_OutcomeCounters ==
    [][DocumentStep =>
          /\ lastOutcome'[1].kind \in {"FetchFailed", "Failed"} =>
                runStats' = [runStats EXCEPT !.failed = @ + 1]
          /\ lastOutcome'[1].kind = "Unsupported" =>
                runStats' = [runStats EXCEPT !.skipped = @ + 1]]_vars

\* ---------------------------------------------------------------------
\* C19  Batch-size bound: the batch is flushed and cleared as soon as it
\* reaches the batch size.  No flush of a run carries more than BatchSize
\* records, every flush but the last of the run carries exactly BatchSize,
\* a batch of BatchSize records is on its way to the index and nowhere
\* else, and between documents the batch holds fewer than BatchSize.
C19_BatchSizeBound ==
    /\ \A i \in 1..Len(runFlushes) : Len(runFlushes[i]) <= BatchSize
    /\ \A i \in 1..(Len(runFlushes) - 1) : Len(runFlushes[i]) = BatchSize
    /\ Len(batch) <= BatchSize
    /\ (runState = "Running" /\ Len(batch) = BatchSize) => runPhase \in {"flush", "flushing"}
    /\ (runState = "Running" /\ runPhase \in {"docs", "final"}) => Len(batch) < BatchSize

\* A completed run flushed a full batch, went on with the documents and
\* flushed the partial batch left at the end.
C19_Witness ==
    /\ runState = "Completed"
    /\ Len(runFlushes) = 2
    /\ Len(runFlushes[1]) = BatchSize
    /\ Len(runFlushes[2]) \in 1..(BatchSize - 1)
    /\ runStats.indexed = BatchSize + Len(runFlushes[2])

\* ---------------------------------------------------------------------
\* The records a run handed to the index so far.
RECURSIVE SumSeq(_)
SumSeq(batches) ==
    IF batches = <<>> THEN 0 ELSE Len(Head(batches)) + SumSeq(Tail(batches))

\* C20  At completion of a run every record built from an extracted
\* document was flushed exactly once and the batch is empty: the partial
\* batch left when the documents are exhausted is flushed, so the sizes of
\* the flushed batches add up to the indexed count.  While the run goes on
\* each such record is either flushed or in the batch.
C20_AllFlushedAtCompletion ==
    /\ runState = "Completed" =>
          /\ batch = <<>>
          /\ SumSeq(runFlushes) = runStats.indexed
          /\ runNext = Len(runDocs) + 1
    /\ (runState = "Running" /\ runPhase # "none") =>
          SumSeq(runFlushes) + Len(batch) = runStats.indexed

\* A run completed whose last batch was a partial one, after a full one.
C20_Witness ==
    /\ runState = "Completed"
    /\ runStats.indexed > BatchSize
    /\ runFlushes # <<>>
    /\ Len(runFlushes[Len(runFlushes)]) < BatchSize
    /\ SumSeq(runFlushes) = runStats.indexed
    /\ batch = <<>>

\* ---------------------------------------------------------------------
\* A step in which the panel sends a POST /index.
PanelPosts ==
    /\ Len(posts') = Len(posts) + 1
    /\ posts'[Len(posts')].from = "panel"

\* C21  The index is cleared within a run only when the run was requested
\* with clear_existing = true, and then before any document is enumerated
\* or flushed.  Update always requests clear_existing = false, Rebuild
\* requests true and only after the user confirmed.
C21_ClearOnlyOnRequest ==
    /\ []((runState = "Running" /\ runPhase = "clear") =>
             /\ runClear
             /\ runDocs = <<>>
             /\ runNext = 1
             /\ batch = <<>>
             /\ runFlushes = <<>>)
    /\ [][/\ (index # <<>> /\ index' = <<>>) =>
                (runState = "Running" /\ runPhase = "clear" /\ runClear)
          /\ (runPhase' = "clear" /\ runPhase # "clear") => runState # "Running"
          /\ PanelPosts =>
                posts'[Len(posts')].clear_existing = (lastConfirm' = Some(TRUE))]_vars

\* The run of a confirmed Rebuild cleared the index, the stale record with
\* it, and indexed the store.
C21_Witness ==
    /\ runState = "Completed"
    /\ runOwner = "panel"
    /\ runClear
    /\ lastConfirm = Some(TRUE)
    /\ index # <<>>
    /\ \A i \in 1..Len(index) : index[i] # StaleRecord
    /\ lastFlush # None
    /\ lastFlush[1].before = 0

\* ---------------------------------------------------------------------
\* The record is in the index.
InIndex(record) == \E j \in 1..Len(index) : index[j] = record

\* C22  An aborted run rolls nothing back.  The step that aborts the run
\* leaves the index as it was, and while the run stays Aborted and no
\* POST /index/clear was made, every record of every batch flushed before
\* the failing one is in the index.
C22_NoRollback ==
    /\ []((runState = "Aborted" /\ clearsIssued = 0) =>
             \A k \in 1..(Len(runFlushes) - 1) :
                \A i \in 1..Len(runFlushes[k]) : InIndex(runFlushes[k][i]))
    /\ [][(runState = "Running" /\ runState' = "Aborted") => index' = index]_vars

\* A run flushed a full batch, its next flush failed and it ended Aborted
\* with the records of the first batch in the index.
C22_Witness ==
    /\ runState = "Aborted"
    /\ clearsIssued = 0
    /\ Len(runFlushes) = 2
    /\ Len(runFlushes[1]) = BatchSize
    /\ ~lastFlush[1].ok
    /\ \A i \in 1..Len(runFlushes[1]) : InIndex(runFlushes[1][i])
    /\ ~InIndex(runFlushes[2][1])

\* ---------------------------------------------------------------------
\* The field of the hit's highlighted projection is a string with '<em>' in
\* it.
Highlighted(field) ==
    /\ cardFormatted.present
    /\ cardFormatted[field].type = "string"
    /\ \E i \in 1..(Len(cardFormatted[field].str) - 3) :
          SubSeq(cardFormatted[field].str, i, i + 3) = <<"<", "e", "m", ">">>

\* The labels of matchIn for the field.
LabelsOf(name) == {i \in 1..Len(matchIn[1]) : matchIn[1][i].field = name}

\* C24  On the rendered card a field label (Filename, Title, Form No,
\* Content) is under 'Match in' if and only if the hit's _formatted value of
\* the field is a string containing '<em>', once at most, and the Content
\* label carries a page number if and only if the hit is a PDF and the page
\* locator found a page: the page it found.
C24_MatchIn ==
    matchIn # None =>
        /\ (LabelsOf("Filename") # {}) = Highlighted("name")
        /\ (LabelsOf("Title") # {}) = Highlighted("title")
        /\ (LabelsOf("Form No") # {}) = Highlighted("form_no")
        /\ (LabelsOf("Content") # {}) = Highlighted("content")
        /\ \A i \in 1..Len(matchIn[1]) :
              /\ matchIn[1][i].field \in {"Filename", "Title", "Form No", "Content"}
              /\ Cardinality(LabelsOf(matchIn[1][i].field)) = 1
              /\ matchIn[1][i].field # "Content" => matchIn[1][i].page = NoPage
              /\ matchIn[1][i].field = "Content" =>
                    /\ (matchIn[1][i].page # NoPage) =
                          (/\ ext(cardName) = <<"p", "d", "f">>
                           /\ findPageNumber(locDocument, locQuery) # NoPage)
                    /\ matchIn[1][i].page # NoPage =>
                          matchIn[1][i].page = findPageNumber(locDocument, locQuery)

\* A PDF hit highlighted in its name and content, the query on its page 1,
\* its title an array: Filename and 'Content . Page 1' are listed, Title
\* and Form No are not.
C24_Witness ==
    /\ matchIn = Some(<<Label("Filename", NoPage), Label("Content", 1)>>)
    /\ cardFormatted.title.type = "array"
    /\ cardFormatted.form_no.type = "string"
    /\ ext(cardName) = <<"p", "d", "f">>

\* ---------------------------------------------------------------------
\* A step in which a handleIndexDocuments call finishes.
PanelCallFinishes == Len(panelCalls') < Len(panelCalls)

\* C25  When handleIndexDocuments finishes, isIndexing is false and exactly
\* one of indexingStatus and error is set: indexingStatus if and only if
\* its POST /index resolved (the call was at the stats refresh), error if
\* and only if it rejected, whether the stats refresh resolves or rejects.
C25_StatusOrError ==
    /\ [][PanelCallFinishes =>
             /\ ~isIndexing'
             /\ (indexingStatus' # None) # (indexError' # None)
             /\ (indexingStatus' # None) = (Head(panelCalls) = "awaitStats")
             /\ (indexError' # None) = (Head(panelCalls) = "awaitIndex")]_vars
    /\ []((panelCalls = <<>> /\ lastClick # "none") =>
             /\ ~isIndexing
             /\ (indexingStatus # None) # (indexError # None))

\* The POST /index of the panel resolved, the stats request that followed
\* was rejected, and the call has finished.
C25_Witness ==
    /\ panelCalls = <<>>
    /\ lastClick = "started"
    /\ ~isIndexing
    /\ indexingStatus # None
    /\ indexingStatus[1].success
    /\ indexError = None
    /\ stats = None

\* ---------------------------------------------------------------------
\* C26  Every run started from IndexingPanel releases the busy flag: with
\* its POST /index and the stats request that follows each settling,
\* isIndexing set by handleIndexDocuments returns to false and the call is
\* over, and a call made while isIndexing is false is never ignored.
C26_BusyFlagReleased ==
    /\ isIndexing ~> (~isIndexing /\ panelCalls = <<>>)
    /\ [][(lastClick' = "ignored" /\ lastClick # "ignored") => isIndexing]_vars

\* After a run of the panel that was answered and released the flag, the
\* panel started another.
C26_Witness ==
    /\ isIndexing
    /\ lastClick = "started"
    /\ postsIssued = 2
    /\ runCount = 1
    /\ runOwner = "panel"
    /\ runState \in {"Completed", "Aborted"}
    /\ Len(posts) = 1
    /\ posts[1].from = "panel"

\* ---------------------------------------------------------------------
\* C27  In HomePage at most one /search request is in flight at a time, the
\* one of the last (query, page) asked for, and the results displayed are
\* the response to the (query, page) request issued last: no response of
\* an earlier request takes the place of a later one's.
C27_LatestResultsShown ==
    /\ Len(searchReqs) <= 1
    /\ isLoading = (searchReqs # <<>>)
    /\ \A i \in 1..Len(searchReqs) :
          /\ searchReqs[i].query = query
          /\ searchReqs[i].offset = (currentPage - 1) * PER_PAGE
    /\ (~isLoading /\ results # None) =>
          /\ results[1].query = query
          /\ results[1].offset = (currentPage - 1) * PER_PAGE

\* After a search and a change to page 2 the second page of the query's
\* results is displayed.
C27_Witness ==
    /\ ~isLoading
    /\ searchReqs = <<>>
    /\ results # None
    /\ currentPage = 2
    /\ results[1].offset = PER_PAGE
    /\ results[1].query = query
    /\ results[1].hits > 0

\* ---------------------------------------------------------------------
\* C28  After any sequence of searches and page changes made through the
\* pagination controls, 1 <= currentPage <= totalPages, totalPages being
\* ceil(totalHits / perPage) of the results HomePage holds, here taken only
\* for results that count at least one hit, so that totalPages >= 1.
C28_CurrentPageInRange ==
    (~isLoading /\ results # None /\ totalHits(results[1]) > 0) =>
        /\ 1 <= currentPage
        /\ currentPage <= totalPages(results[1])

\* ---------------------------------------------------------------------
\* The page numbers of the list, in the order listed.
ListedPages(list) == SelectSeq(list, LAMBDA item : item # Ellipsis)

\* C29  For totalPages >= 1 and 1 <= currentPage <= totalPages the list
\* getPageNumbers returns holds, strictly increasing, exactly the pages that
\* are 1, totalPages or within 2 of currentPage, and a '...' between two
\* listed pages exactly when they differ by more than 1: it neither starts
\* nor ends with '...' and has no two '...' in a row.  Pagination, which calls
\* it for totalPages > 1 only, renders that list.
C29_PageNumbers ==
    /\ pageNumbers # None => pageNumbers[1] = getPageNumbers(pnCurrentPage, pnTotalPages)
    /\  LET list == getPageNumbers(pnCurrentPage, pnTotalPages)
            pages == ListedPages(list)
        IN  /\ \A i \in 1..(Len(pages) - 1) : pages[i] < pages[i + 1]
            /\ {pages[i] : i \in 1..Len(pages)} =
                  {p \in 1..pnTotalPages :
                      \/ p = 1
                      \/ p = pnTotalPages
                      \/ (p >= pnCurrentPage - 2 /\ p <= pnCurrentPage + 2)}
            /\ list[1] # Ellipsis
            /\ list[Len(list)] # Ellipsis
            /\ \A j \in 1..(Len(list) - 1) :
                  /\ ~(list[j] = Ellipsis /\ list[j + 1] = Ellipsis)
                  /\ (list[j] # Ellipsis /\ list[j + 1] # Ellipsis) =>
                        list[j + 1] - list[j] = 1
            /\ \A j \in 2..(Len(list) - 1) :
                  list[j] = Ellipsis => list[j + 1] - list[j - 1] > 1

\* Page 5 of 10: 1 ... 3 4 5 6 7 ... 10.
C29_Witness ==
    /\ pnCurrentPage = 5
    /\ pnTotalPages = MaxTotalPages
    /\ pageNumbers = Some(<<1, Ellipsis, 3, 4, 5, 6, 7, Ellipsis, MaxTotalPages>>)

\* ---------------------------------------------------------------------
\* C30  In DocViewerModal, whenever status is 'done' what is rendered in
\* the container is the document of the current documentId, also when
\* documentId changed, or the modal was closed and opened again, while an
\* earlier fetch and render was under way.
C30_DoneShowsCurrent ==
    (dvIsOpen /\ dvDocumentId \in ViewerDocs /\ dvStatus = "done") =>
        /\ dvContainer.mounted
        /\ dvContainer.html = dvDocumentId

====
